---- MODULE Spec2Model ----
(***************************************************************************)
(* Model of toejough/testredundancy: the greedy test selector              *)
(* (internal/analysis/analysis.go, SelectMinimalSet) and the pipeline that *)
(* feeds it (find.go, Find).                                               *)
(*                                                                         *)
(* Percentages are integers in tenths of a percent, the resolution of the  *)
(* "go tool cover -func" output that ParseFunctionCoverage reads.  The     *)
(* selector only compares percentages (>, >=), so the scale is immaterial  *)
(* to it.  A missing entry of a Coverage map and an entry of 0 behave the  *)
(* same in the selector (both comparisons are strict against a running     *)
(* value that starts at 0), so a Coverage map is a total function with 0   *)
(* for "no entry".  Qualified test names are the integers 1..MaxTests; 0   *)
(* stands for the empty string "".                                         *)
(***************************************************************************)
EXTENDS Integers, Sequences, FiniteSets, TLC

\* ---------------------------------------------------------------- bounds
\* SelectMinimalSet: the greatest length of allCoverage
MaxTests == 3

Funcs == {"f1", "f2"}

Percents == {0, 500, 1000}

Thresholds == {0, 500, 1000}

NoTest == 0

TestNames == 1..MaxTests

\* Find: the greatest number of discovered tests
MaxFindTests == 2

FindTestNames == 1..MaxFindTests

\* ---------------------------------------------------------------- state
VARIABLES
    allCoverage,      \* []TestCoverage handed to SelectMinimalSet
    baselineTests,    \* map[string]bool: the baseline names
    targetFunctions,  \* map[string]bool: the target functions
    threshold,        \* the coverage threshold
    currentCoverage,  \* running coverage per target function
    remainingGaps,    \* target functions still to be filled
    keptTests,        \* set of kept names
    keptOrder,        \* kept names in commit order
    bestTest,         \* winner of the last completed scan
    bestImprovements, \* its improvement count
    redundant,        \* the redundant list
    pc,               \* position of SelectMinimalSet
    allTests,         \* Find: the discovered tests, in discovery order
    testBlocks,       \* Find: the blocks each test's profile marks covered
    finished,         \* Find: tests whose goroutine has ended
    testCoverageFiles,\* Find: tests with an entry in the result map
    findPc,           \* Find: position
    findResult,       \* Find: the returned Result
    ctxDone,          \* Find: the context has been cancelled
    testErr,          \* Find: how the goroutine of each finished test ended
    finishOrder,      \* Find: the tests in the order their goroutines ended
    buildIdx,         \* Find: position of the step-5 loop in allTestsToRun
    buildFailed       \* Find: tests step 5 skipped although they have a map entry

VARIABLES
    bsA,              \* BlockSet: a parsed profile
    bsB,              \* BlockSet: another parsed profile
    blockSet,         \* BlockSet: the receiver of Merge (bs.Blocks)
    bsPrev,           \* BlockSet: the receiver before the last Merge
    bsArgs,           \* BlockSet: which profiles were merged, in call order
    bsNew,            \* BlockSet: CountNewStatements taken before the last Merge
    pbBlock,          \* ParseBlock: the Block handed to FormatBlock
    pbLine,           \* ParseBlock: the line, a sequence of characters
    pbResult,         \* ParseBlock: the (Block, error) returned by ParseBlock
    pbPc,             \* ParseBlock: position of the round trip
    mgContents,       \* merge: the contents handed to MergeContents / MergeFiles
    mgOut1,           \* merge: what a first call of MergeContents returned
    mgOut2,           \* merge: what a second call on the same contents returned
    mgFile,           \* merge: the file MergeFiles left behind
    mgPc,             \* merge: position
    runTests,         \* runner: allTestsToRun
    parallelTests,    \* runner: the names detectParallelTests marks parallel-safe
    numWorkers,       \* runner: runtime.NumCPU()
    runVariant,       \* runner: "main" (findRedundantTestsWithConfig) or "find" (Find)
    runState,         \* runner: per test idle / spawned / running / done
    runStarted,       \* runner: the tests in the order their runs began
    runFiles,         \* runner: the names with an entry in testCoverageFiles
    allTestOrder,     \* runner: the tests appended on success (main.go)
    testCoverageFilesMu, \* runner: the goroutine holding the map's mutex
    allTestOrderMu,   \* runner: the goroutine holding the list's mutex
    runSucceeded,     \* runner: the tests whose run, filter and write succeeded
    runRead,          \* runner: what step 4 found in testCoverageFiles
    runPc             \* runner: position

VARIABLES
    mainPc,           \* findRedundantTestsWithConfig: position
    currentMergedFile,\* findRedundantTestsWithConfig: the running merged profile
    validation,       \* what step 6 (validation) printed
    mainResult,       \* findRedundantTestsWithConfig: the error and the report
    config,           \* baseline: Config.BaselineTests
    baselineVariant,  \* baseline: "find" (find.go) or "pattern" (block-level Find)
    baselineTestSet,  \* baseline: the exact qualified names
    baselinePatterns, \* baseline: package -> name prefix
    classifyTests,    \* baseline: the discovered tests, in discovery order
    classified,       \* baseline: per discovered test, the list it was put in
    baselineIdx,      \* baseline: position of the step-1 loop in config
    baselinePc        \* baseline: position

VARIABLES
    nameTests,        \* file names: the tests two workers were started for
    coverFiles        \* file names: per worker, the coverFile it computed

VARIABLES
    evalPc,           \* findBestTest: position of the selection loop around it
    evalPool,         \* findBestTest: the pool being evaluated
    evalCandidates,   \* findBestTest: candidates
    gapsCopy,         \* findBestTest: gapsCopy
    covCopy,          \* findBestTest: covCopy
    evalState,        \* findBestTest: per candidate goroutine spawned / running / done
    results           \* findBestTest: results, per candidate the improved functions

VARIABLES
    fcMap,            \* function coverage: the FunctionMap
    fcBlocks,         \* function coverage: bs.Blocks
    fcResult,         \* function coverage: what ComputeFunctionCoverage returned
    fcPercent,        \* function coverage: what CoveragePercent returned
    fcPc              \* function coverage: which of the two calls have returned

VARIABLES
    testBlockSets,    \* block-level Find: the parsed profile of each test that has one
    totalBlockSet,    \* block-level Find: the merge of all parsed profiles
    bfPc              \* block-level Find: position

vars == <<allCoverage, baselineTests, targetFunctions, threshold,
          currentCoverage, remainingGaps, keptTests, keptOrder,
          bestTest, bestImprovements, redundant, pc,
          allTests, testBlocks, finished, testCoverageFiles, findPc,
          findResult, ctxDone, testErr, finishOrder, buildIdx, buildFailed,
          bsA, bsB, blockSet, bsPrev, bsArgs, bsNew,
          pbBlock, pbLine, pbResult, pbPc,
          mgContents, mgOut1, mgOut2, mgFile, mgPc,
          runTests, parallelTests, numWorkers, runVariant, runState,
          runStarted, runFiles, allTestOrder, testCoverageFilesMu,
          allTestOrderMu, runSucceeded, runRead, runPc,
          mainPc, currentMergedFile, validation, mainResult,
          config, baselineVariant, baselineTestSet, baselinePatterns,
          classifyTests, classified, baselineIdx, baselinePc,
          nameTests, coverFiles,
          evalPc, evalPool, evalCandidates, gapsCopy, covCopy, evalState, results,
          fcMap, fcBlocks, fcResult, fcPercent, fcPc,
          testBlockSets, totalBlockSet, bfPc>>

selectVars == <<allCoverage, baselineTests, targetFunctions, threshold,
                currentCoverage, remainingGaps, keptTests, keptOrder,
                bestTest, bestImprovements, redundant, pc>>

findVars == <<allTests, testBlocks, finished, testCoverageFiles, findPc,
              findResult, ctxDone, testErr, finishOrder, buildIdx, buildFailed>>

blockSetVars == <<bsA, bsB, blockSet, bsPrev, bsArgs, bsNew>>

\* the variables of the coverage package, which the selector and Find leave
\* alone
parseVars == <<pbBlock, pbLine, pbResult, pbPc>>

mergeVars == <<mgContents, mgOut1, mgOut2, mgFile, mgPc>>

coverageVars == <<blockSetVars, parseVars, mergeVars>>

runVars == <<runTests, parallelTests, numWorkers, runVariant, runState,
             runStarted, runFiles, allTestOrder, testCoverageFilesMu,
             allTestOrderMu, runSucceeded, runRead, runPc>>

mainVars == <<mainPc, currentMergedFile, validation, mainResult>>

baselineVars == <<config, baselineVariant, baselineTestSet, baselinePatterns,
                  classifyTests, classified, baselineIdx, baselinePc>>

nameVars == <<nameTests, coverFiles>>

NameIdle ==
    /\ nameTests = <<>>
    /\ coverFiles = <<>>

evalVars == <<evalPc, evalPool, evalCandidates, gapsCopy, covCopy, evalState, results>>

EvalIdle ==
    /\ evalPc = "idle"
    /\ evalPool = "none"
    /\ evalCandidates = <<>>
    /\ gapsCopy = {}
    /\ covCopy = <<>>
    /\ evalState = <<>>
    /\ results = <<>>

funcCovVars == <<fcMap, fcBlocks, fcResult, fcPercent, fcPc>>

FuncCovIdle ==
    /\ fcMap = <<>>
    /\ fcBlocks = <<>>
    /\ fcResult = <<>>
    /\ fcPercent = <<>>
    /\ fcPc = {}

blockFindVars == <<testBlockSets, totalBlockSet, bfPc>>

BlockFindIdle ==
    /\ testBlockSets = <<>>
    /\ totalBlockSet = <<>>
    /\ bfPc = "off"

\* the variables of the specifications of single functions and loops
unitVars == <<nameVars, evalVars, funcCovVars, blockFindVars>>

UnitIdle == NameIdle /\ EvalIdle /\ FuncCovIdle /\ BlockFindIdle

\* the variables of findRedundantTestsWithConfig's steps 4-6 and of the
\* baseline classification
toolVars == <<mainVars, baselineVars, unitVars>>

MainIdle ==
    /\ mainPc = "off"
    /\ currentMergedFile = <<>>
    /\ validation = "none"
    /\ mainResult = <<>>

BaselineIdle ==
    /\ config = <<>>
    /\ baselineVariant = "off"
    /\ baselineTestSet = {}
    /\ baselinePatterns = <<>>
    /\ classifyTests = <<>>
    /\ classified = <<>>
    /\ baselineIdx = 0
    /\ baselinePc = "off"

ToolIdle == MainIdle /\ BaselineIdle /\ UnitIdle

BlockSetIdle ==
    /\ bsA = <<>>
    /\ bsB = <<>>
    /\ blockSet = <<>>
    /\ bsPrev = <<>>
    /\ bsArgs = <<>>
    /\ bsNew = 0

ParseIdle ==
    /\ pbBlock = <<>>
    /\ pbLine = <<>>
    /\ pbResult = <<>>
    /\ pbPc = "off"

MergeIdle ==
    /\ mgContents = <<>>
    /\ mgOut1 = <<>>
    /\ mgOut2 = <<>>
    /\ mgFile = <<>>
    /\ mgPc = "off"

CoverageIdle == BlockSetIdle /\ ParseIdle /\ MergeIdle

RunIdle ==
    /\ runTests = <<>>
    /\ parallelTests = {}
    /\ numWorkers = 1
    /\ runVariant = "off"
    /\ runState = <<>>
    /\ runStarted = <<>>
    /\ runFiles = {}
    /\ allTestOrder = <<>>
    /\ testCoverageFilesMu = NoTest
    /\ allTestOrderMu = NoTest
    /\ runSucceeded = {}
    /\ runRead = <<>>
    /\ runPc = "off"

\* ---------------------------------------------------------------- helpers
Range(s) == {s[i] : i \in 1..Len(s)}

RECURSIVE splitList(_, _, _)
\* "for _, tc := range allCoverage": the records whose baselineTests[name]
\* equals want, in input order
splitList(all, base, want) ==
    IF all = <<>> THEN <<>>
    ELSE IF (Head(all).TestName \in base) = want
         THEN <<Head(all)>> \o splitList(Tail(all), base, want)
         ELSE splitList(Tail(all), base, want)

\* coverageByTest[tc.TestName] = tc.Coverage; a later record overwrites an
\* earlier one of the same name
coverageByTest(all, name) ==
    LET idx == {i \in 1..Len(all) : all[i].TestName = name}
    IN  all[CHOOSE i \in idx : \A j \in idx : j <= i].Coverage

\* mergeCoverage that takes the test's value whether or not it is greater
mergeCoverage_Overwrite(cur, cov, targets) ==
    [fn \in DOMAIN cur |-> IF fn \in targets THEN cov[fn] ELSE cur[fn]]

\* mergeCoverage with the comparison reversed: the running value never rises
mergeCoverage_Reversed(cur, cov, targets) ==
    [fn \in DOMAIN cur |->
        IF fn \in targets /\ cov[fn] < cur[fn] THEN cov[fn] ELSE cur[fn]]

\* for fn, newCov := range cov: if target and newCov > current: current = newCov
mergeCoverage(cur, cov, targets) ==
    [fn \in DOMAIN cur |->
        IF fn \in targets /\ cov[fn] > cur[fn] THEN cov[fn] ELSE cur[fn]]

\* updateGaps with an exclusive comparison
updateGaps_Exclusive(gaps, cur, th) == {fn \in gaps : ~(cur[fn] > th)}

\* updateGaps with the comparison reversed
updateGaps_Reversed(gaps, cur, th) == {fn \in gaps : ~(cur[fn] <= th)}

\* updateGaps that takes any coverage at all for a filled gap
updateGaps_AnyCoverage(gaps, cur, th) == {fn \in gaps : ~(cur[fn] > 0)}

\* for fn := range remainingGaps: if current[fn] >= threshold: delete
updateGaps(gaps, cur, th) == {fn \in gaps : ~(cur[fn] >= th)}

\* countGapImprovements that counts a gap the test merely equals
countGapImprovements_NonStrict(cov, gaps, cur) ==
    Cardinality({fn \in gaps : cov[fn] >= cur[fn]})

\* number of gap functions on which the test is strictly above the running value
countGapImprovements(cov, gaps, cur) ==
    Cardinality({fn \in gaps : cov[fn] > cur[fn]})

RECURSIVE scanList_LastWins(_, _, _, _, _, _)
\* scanList that replaces the best on an equal count too
scanList_LastWins(list, all, kept, gaps, cur, best) ==
    IF list = <<>> THEN best
    ELSE LET tc == Head(list)
             improvements ==
                 Cardinality({fn \in gaps :
                     coverageByTest(all, tc.TestName)[fn] > cur[fn]})
         IN  IF tc.TestName \in kept
             THEN scanList_LastWins(Tail(list), all, kept, gaps, cur, best)
             ELSE IF improvements >= best[2]
                  THEN scanList_LastWins(Tail(list), all, kept, gaps, cur,
                                         <<tc.TestName, improvements>>)
                  ELSE scanList_LastWins(Tail(list), all, kept, gaps, cur, best)

RECURSIVE scanList_Rescan(_, _, _, _, _, _)
\* scanList that does not skip the kept tests and counts a gap function as
\* improved when the test is at the running value
scanList_Rescan(list, all, kept, gaps, cur, best) ==
    IF list = <<>> THEN best
    ELSE LET tc == Head(list)
             improvements ==
                 countGapImprovements_NonStrict(
                     coverageByTest(all, tc.TestName), gaps, cur)
         IN  IF improvements > best[2]
             THEN scanList_Rescan(Tail(list), all, kept, gaps, cur,
                                  <<tc.TestName, improvements>>)
             ELSE scanList_Rescan(Tail(list), all, kept, gaps, cur, best)

RECURSIVE scanList(_, _, _, _, _, _)
\* one "for _, tc := range list" scan: skips kept tests, replaces the best
\* only on a strictly greater count.  best is <<bestTest, bestImprovements>>.
scanList(list, all, kept, gaps, cur, best) ==
    IF list = <<>> THEN best
    ELSE LET tc == Head(list)
             improvements ==
                 countGapImprovements(coverageByTest(all, tc.TestName), gaps, cur)
         IN  IF tc.TestName \in kept
             THEN scanList(Tail(list), all, kept, gaps, cur, best)
             ELSE IF improvements > best[2]
                  THEN scanList(Tail(list), all, kept, gaps, cur,
                                <<tc.TestName, improvements>>)
                  ELSE scanList(Tail(list), all, kept, gaps, cur, best)

baselineTestList(all, base) == splitList(all, base, TRUE)

nonBaselineTestList(all, base) == splitList(all, base, FALSE)

\* selectBest that scans the non-baseline tests even when a baseline test
\* improves a gap
selectBest_NoPreference(all, base, kept, gaps, cur) ==
    scanList(nonBaselineTestList(all, base), all, kept, gaps, cur,
             scanList(baselineTestList(all, base), all, kept, gaps, cur,
                      <<NoTest, 0>>))

\* the body of one loop iteration up to the break test
selectBest(all, base, kept, gaps, cur) ==
    LET b == scanList(baselineTestList(all, base), all, kept, gaps, cur,
                      <<NoTest, 0>>)
    IN  IF b[2] = 0
        THEN scanList(nonBaselineTestList(all, base), all, kept, gaps, cur, b)
        ELSE b

RECURSIVE discoveredNotKept(_, _)
discoveredNotKept(tests, kept) ==
    IF tests = <<>> THEN <<>>
    ELSE IF Head(tests) \notin kept
         THEN <<Head(tests)>> \o discoveredNotKept(Tail(tests), kept)
         ELSE discoveredNotKept(Tail(tests), kept)

\* the redundant list taken from every discovered test, run or not
redundantList_Discovered(all, kept) == discoveredNotKept(allTests, kept)

RECURSIVE redundantList(_, _)
redundantList(all, kept) ==
    IF all = <<>> THEN <<>>
    ELSE IF Head(all).TestName \notin kept
         THEN <<Head(all).TestName>> \o redundantList(Tail(all), kept)
         ELSE redundantList(Tail(all), kept)

NoResult == [KeptTests |-> <<>>, RedundantTests |-> <<>>, err |-> "none"]

\* ---------------------------------------------------------------- inputs
\* all input lists of n distinct tests, test i at position i
CoverageLists(n) ==
    {[i \in 1..n |-> [TestName |-> i, Coverage |-> c[i]]] :
        c \in [1..n -> [Funcs -> Percents]]}

\* ---------------------------------------------------------------- SelectMinimalSet
Init ==
    /\ \E n \in 0..MaxTests : allCoverage \in CoverageLists(n)
    /\ baselineTests \in SUBSET TestNames
    /\ targetFunctions \in SUBSET Funcs
    /\ threshold \in Thresholds
    /\ currentCoverage = <<>>
    /\ remainingGaps = {}
    /\ keptTests = {}
    /\ keptOrder = <<>>
    /\ bestTest = NoTest
    /\ bestImprovements = 0
    /\ redundant = <<>>
    /\ pc = "start"
    /\ allTests = <<>>
    /\ testBlocks = <<>>
    /\ finished = {}
    /\ testCoverageFiles = {}
    /\ findPc = "off"
    /\ findResult = NoResult
    /\ ctxDone = FALSE
    /\ testErr = <<>>
    /\ finishOrder = <<>>
    /\ buildIdx = 0
    /\ buildFailed = {}
    /\ CoverageIdle
    /\ RunIdle
    /\ ToolIdle

\* lines 26-28: empty input returns SelectionResult{}
SelectEmpty ==
    /\ pc = "start"
    /\ (Len(allCoverage) = 0 \/ targetFunctions = {})
    /\ pc' = "done"
    /\ UNCHANGED <<allCoverage, baselineTests, targetFunctions, threshold,
                   currentCoverage, remainingGaps, keptTests, keptOrder,
                   bestTest, bestImprovements, redundant>>
    /\ UNCHANGED findVars
    /\ UNCHANGED coverageVars
    /\ UNCHANGED runVars
    /\ UNCHANGED toolVars

\* lines 30-106: set up the running state
SelectSetup ==
    /\ pc = "start"
    /\ ~(Len(allCoverage) = 0 \/ targetFunctions = {})
    /\ currentCoverage' = [fn \in targetFunctions |-> 0]
    /\ remainingGaps' = targetFunctions
    /\ keptTests' = {}
    /\ keptOrder' = <<>>
    /\ pc' = "loop"
    /\ UNCHANGED <<allCoverage, baselineTests, targetFunctions, threshold,
                   bestTest, bestImprovements, redundant>>
    /\ UNCHANGED findVars
    /\ UNCHANGED coverageVars
    /\ UNCHANGED runVars
    /\ UNCHANGED toolVars

\* lines 109-149: an iteration that finds an improving test and commits it
SelectCommit ==
    /\ pc = "loop"
    /\ remainingGaps # {}
    /\ LET best == selectBest(allCoverage, baselineTests, keptTests,
                              remainingGaps, currentCoverage)
           cur == mergeCoverage(currentCoverage,
                                coverageByTest(allCoverage, best[1]),
                                targetFunctions)
       IN  /\ best[2] # 0
           /\ bestTest' = best[1]
           /\ bestImprovements' = best[2]
           /\ keptTests' = keptTests \cup {best[1]}
           /\ keptOrder' = Append(keptOrder, best[1])
           /\ currentCoverage' = cur
           /\ remainingGaps' = updateGaps(remainingGaps, cur, threshold)
    /\ UNCHANGED <<allCoverage, baselineTests, targetFunctions, threshold,
                   redundant, pc>>
    /\ UNCHANGED findVars
    /\ UNCHANGED coverageVars
    /\ UNCHANGED runVars
    /\ UNCHANGED toolVars

\* lines 109, 141-164: the loop ends (no gap left, or no test improves any
\* gap) and the redundant list is built
SelectReturn ==
    /\ pc = "loop"
    /\ \/ remainingGaps = {}
       \/ selectBest(allCoverage, baselineTests, keptTests,
                     remainingGaps, currentCoverage)[2] = 0
    /\ redundant' = redundantList(allCoverage, keptTests)
    /\ pc' = "done"
    /\ UNCHANGED <<allCoverage, baselineTests, targetFunctions, threshold,
                   currentCoverage, remainingGaps, keptTests, keptOrder,
                   bestTest, bestImprovements>>
    /\ UNCHANGED findVars
    /\ UNCHANGED coverageVars
    /\ UNCHANGED runVars
    /\ UNCHANGED toolVars

Next == SelectEmpty \/ SelectSetup \/ SelectCommit \/ SelectReturn

Spec == Init /\ [][Next]_vars

\* ================================================================ Find (find.go)
\* The instrumented program: every block holds one statement and lies in one
\* function.  With -coverpkg every profile lists every block, so
\* "go tool cover -func" reports every function in every run.
Blocks == {"b1", "b2", "b3"}

BlockFunc == [b1 |-> "f1", b2 |-> "f1", b3 |-> "f2"]

NumStmt(b) == 1

RECURSIVE SumStmts(_)
SumStmts(S) ==
    IF S = {} THEN 0
    ELSE LET b == CHOOSE x \in S : TRUE IN NumStmt(b) + SumStmts(S \ {b})

\* "go tool cover -func" followed by ParseFunctionCoverage: the percentage of
\* fn's statements that lie in covered blocks, printed with one decimal and
\* parsed back; the value in tenths of a percent.
FuncPercent(covered, fn) ==
    LET total == SumStmts({b \in Blocks : BlockFunc[b] = fn})
        hit == SumStmts({b \in covered : BlockFunc[b] = fn})
    IN  IF total = 0 THEN 0 ELSE (2000 * hit + total) \div (2 * total)

ParseFunctionCoverage(covered) == [fn \in Funcs |-> FuncPercent(covered, fn)]

\* MergeContents: the blocks of all the profiles, counts of equal blocks
\* summed; a block is covered when its summed count is positive
MergeContents(tests, blocksOf) == UNION {blocksOf[t] : t \in tests}

\* append(baselineTests, nonBaselineTests...): baseline tests first, each
\* group in discovery order
RECURSIVE filterTests(_, _, _)
filterTests(tests, base, want) ==
    IF tests = <<>> THEN <<>>
    ELSE IF (Head(tests) \in base) = want
         THEN <<Head(tests)>> \o filterTests(Tail(tests), base, want)
         ELSE filterTests(Tail(tests), base, want)

\* the run list taken in the order the goroutines ended
allTestsToRun_CompletionOrder(tests, base) == finishOrder

allTestsToRun(tests, base) ==
    filterTests(tests, base, TRUE) \o filterTests(tests, base, FALSE)

\* Step 5: one TestCoverage per test that has a map entry, in run order
RECURSIVE testCoverages(_, _, _)
testCoverages(tests, files, blocksOf) ==
    IF tests = <<>> THEN <<>>
    ELSE IF Head(tests) \in files
         THEN <<[TestName |-> Head(tests),
                 Coverage |-> ParseFunctionCoverage(blocksOf[Head(tests)])]>>
              \o testCoverages(Tail(tests), files, blocksOf)
         ELSE testCoverages(Tail(tests), files, blocksOf)

InitFind ==
    /\ \E n \in 0..MaxFindTests :
          /\ allTests = [i \in 1..n |-> i]
          /\ testBlocks \in [1..n -> SUBSET Blocks]
    /\ baselineTests \in SUBSET FindTestNames
    /\ threshold \in Thresholds
    /\ allCoverage = <<>>
    /\ targetFunctions = {}
    /\ currentCoverage = <<>>
    /\ remainingGaps = {}
    /\ keptTests = {}
    /\ keptOrder = <<>>
    /\ bestTest = NoTest
    /\ bestImprovements = 0
    /\ redundant = <<>>
    /\ pc = "idle"
    /\ finished = {}
    /\ testCoverageFiles = {}
    /\ findPc = "list"
    /\ findResult = NoResult
    /\ ctxDone = FALSE
    /\ testErr = <<>>
    /\ finishOrder = <<>>
    /\ buildIdx = 0
    /\ buildFailed = {}
    /\ CoverageIdle
    /\ RunIdle
    /\ ToolIdle

\* how the goroutine of one test can end: with a map entry ("ok"), or at one
\* of the four early returns (lines 113-141)
RunOutcomes == {"ok", "run", "read", "filter", "write"}

ErrResult(e) == [KeptTests |-> <<>>, RedundantTests |-> <<>>, err |-> e]

\* context.Context: the caller cancels while Find is at work
CtxCancel ==
    /\ findPc \in {"list", "run", "build", "select"}
    /\ ~ctxDone
    /\ ctxDone' = TRUE
    /\ UNCHANGED <<allTests, testBlocks, finished, testCoverageFiles, findPc,
                   findResult, testErr, finishOrder, buildIdx, buildFailed>>
    /\ UNCHANGED selectVars
    /\ UNCHANGED coverageVars
    /\ UNCHANGED runVars
    /\ UNCHANGED toolVars

\* lines 58-78: listTests runs "go list" under ctx (exec.Output is
\* exec.CommandContext); its error ends Find
FindList ==
    /\ findPc = "list"
    /\ \E fail \in BOOLEAN :
          /\ ctxDone => fail
          /\ IF fail
             THEN /\ findPc' = "done"
                  /\ findResult' = ErrResult("failed to list tests")
             ELSE /\ findPc' = "run"
                  /\ UNCHANGED findResult
    /\ UNCHANGED <<allTests, testBlocks, finished, testCoverageFiles, ctxDone,
                   testErr, finishOrder, buildIdx, buildFailed>>
    /\ UNCHANGED selectVars
    /\ UNCHANGED coverageVars
    /\ UNCHANGED runVars
    /\ UNCHANGED toolVars

\* lines 99-150: the goroutine of one test runs to its end; on any failure
\* (runner, read, filter, write) it returns without a map entry.
\* RunQuietCoverage is exec.Command, not CommandContext: ctx plays no part.
FindRunTest(t) ==
    /\ findPc = "run"
    /\ t \in Range(allTests) \ finished
    /\ finished' = finished \cup {t}
    /\ finishOrder' = Append(finishOrder, t)
    /\ \E outcome \in RunOutcomes :
          /\ testErr' = [x \in DOMAIN testErr \cup {t} |->
                            IF x = t THEN outcome ELSE testErr[x]]
          /\ testCoverageFiles' = IF outcome = "ok"
                                  THEN testCoverageFiles \cup {t}
                                  ELSE testCoverageFiles
    /\ UNCHANGED <<allTests, testBlocks, findPc, findResult, ctxDone,
                   buildIdx, buildFailed>>
    /\ UNCHANGED selectVars
    /\ UNCHANGED coverageVars
    /\ UNCHANGED runVars
    /\ UNCHANGED toolVars

\* the zero-success test with the comparison dropped
noCoverageFiles_Never(files) == FALSE

\* lines 158-163: allCoverageFiles holds one file per map entry;
\* len(allCoverageFiles) == 0
noCoverageFiles(files) == Cardinality(files) = 0

\* lines 153-165: after wg.Wait(), no map entry means an error
FindNoCoverage ==
    /\ findPc = "run"
    /\ finished = Range(allTests)
    /\ noCoverageFiles(testCoverageFiles)
    /\ findPc' = "done"
    /\ findResult' = ErrResult("no tests ran successfully")
    /\ UNCHANGED <<allTests, testBlocks, finished, testCoverageFiles, ctxDone,
                   testErr, finishOrder, buildIdx, buildFailed>>
    /\ UNCHANGED selectVars
    /\ UNCHANGED coverageVars
    /\ UNCHANGED runVars
    /\ UNCHANGED toolVars

\* lines 153-213: merge all profiles and build the target set; the merge,
\* the write and "go tool cover" (run under ctx) can each end Find
FindTargets ==
    /\ findPc = "run"
    /\ finished = Range(allTests)
    /\ ~noCoverageFiles(testCoverageFiles)
    /\ \E fail \in BOOLEAN :
          /\ ctxDone => fail
          /\ IF fail
             THEN /\ findPc' = "done"
                  /\ findResult' = ErrResult("failed to analyze coverage")
                  /\ UNCHANGED <<targetFunctions, buildIdx>>
             ELSE /\ LET targetCoverage ==
                             ParseFunctionCoverage(
                                 MergeContents(testCoverageFiles, testBlocks))
                     IN  targetFunctions' =
                             {fn \in Funcs : targetCoverage[fn] >= threshold}
                  /\ findPc' = "build"
                  /\ buildIdx' = 1
                  /\ UNCHANGED findResult
    /\ UNCHANGED <<allCoverage, baselineTests, threshold, currentCoverage,
                   remainingGaps, keptTests, keptOrder, bestTest,
                   bestImprovements, redundant, pc>>
    /\ UNCHANGED <<allTests, testBlocks, finished, testCoverageFiles, ctxDone,
                   testErr, finishOrder, buildFailed>>
    /\ UNCHANGED coverageVars
    /\ UNCHANGED runVars
    /\ UNCHANGED toolVars

\* lines 220-254: one iteration of the step-5 loop.  A test without a map
\* entry is skipped; so is one whose file cannot be read or copied, or whose
\* "go tool cover" run (under ctx) or parse fails.
FindBuildTest ==
    /\ findPc = "build"
    /\ buildIdx <= Len(allTests)
    /\ LET test == allTestsToRun(allTests, baselineTests)[buildIdx]
       IN  IF test \notin testCoverageFiles
           THEN UNCHANGED <<allCoverage, buildFailed>>
           ELSE \E fail \in BOOLEAN :
                   /\ ctxDone => fail
                   /\ IF fail
                      THEN /\ buildFailed' = buildFailed \cup {test}
                           /\ UNCHANGED allCoverage
                      ELSE /\ allCoverage' = allCoverage \o
                                  testCoverages(<<test>>, testCoverageFiles,
                                                testBlocks)
                           /\ UNCHANGED buildFailed
    /\ buildIdx' = buildIdx + 1
    /\ UNCHANGED <<baselineTests, targetFunctions, threshold, currentCoverage,
                   remainingGaps, keptTests, keptOrder, bestTest,
                   bestImprovements, redundant, pc>>
    /\ UNCHANGED <<allTests, testBlocks, finished, testCoverageFiles, findPc,
                   findResult, ctxDone, testErr, finishOrder>>
    /\ UNCHANGED coverageVars
    /\ UNCHANGED runVars
    /\ UNCHANGED toolVars

\* line 257: the loop is over; the call of SelectMinimalSet
FindBuild ==
    /\ findPc = "build"
    /\ buildIdx > Len(allTests)
    /\ pc' = "start"
    /\ findPc' = "select"
    /\ UNCHANGED <<allCoverage, baselineTests, targetFunctions, threshold,
                   currentCoverage, remainingGaps, keptTests, keptOrder,
                   bestTest, bestImprovements, redundant>>
    /\ UNCHANGED <<allTests, testBlocks, finished, testCoverageFiles,
                   findResult, ctxDone, testErr, finishOrder, buildIdx,
                   buildFailed>>
    /\ UNCHANGED coverageVars
    /\ UNCHANGED runVars
    /\ UNCHANGED toolVars

\* lines 257-280: SelectMinimalSet has returned; Find returns its two lists
FindReturn ==
    /\ findPc = "select"
    /\ pc = "done"
    /\ findResult' = [KeptTests |-> keptOrder, RedundantTests |-> redundant,
                      err |-> "none"]
    /\ findPc' = "done"
    /\ UNCHANGED <<allTests, testBlocks, finished, testCoverageFiles, ctxDone,
                   testErr, finishOrder, buildIdx, buildFailed>>
    /\ UNCHANGED selectVars
    /\ UNCHANGED coverageVars
    /\ UNCHANGED runVars
    /\ UNCHANGED toolVars

NextFind ==
    \/ CtxCancel
    \/ FindList
    \/ \E t \in FindTestNames : FindRunTest(t)
    \/ FindNoCoverage
    \/ FindTargets
    \/ FindBuildTest
    \/ FindBuild
    \/ SelectEmpty
    \/ SelectSetup
    \/ SelectCommit
    \/ SelectReturn
    \/ FindReturn

SpecFind == InitFind /\ [][NextFind]_vars

\* ================================================================ claims
InputNames == {allCoverage[i].TestName : i \in 1..Len(allCoverage)}

Cov(t) == coverageByTest(allCoverage, t)

PosOf(t) == CHOOSE i \in 1..Len(allCoverage) : allCoverage[i].TestName = t

Kept == Range(keptOrder)

Redundant == Range(redundant)

\* greatest coverage of fn among the tests of S (0 when S is empty)
MaxCov(S, fn) ==
    IF S = {} THEN 0
    ELSE LET best == CHOOSE t \in S : \A u \in S : Cov(u)[fn] <= Cov(t)[fn]
         IN  Cov(best)[fn]

NonEmptyOnTargets(t) == \E fn \in targetFunctions : Cov(t)[fn] > 0

SameOnTargets(x, y) == \A fn \in targetFunctions : Cov(x)[fn] = Cov(y)[fn]

Dominates(x, y) == \A fn \in targetFunctions : Cov(x)[fn] >= Cov(y)[fn]

SoleSource(t, fn) ==
    /\ Cov(t)[fn] > 0
    /\ \A u \in InputNames \ {t} : Cov(u)[fn] = 0

\* ---------------------------------------------------------------- C1
\* coverage of fn, in tenths of a percent, when the profiles of the tests of S
\* are merged by block union
UnionPercent(S, fn) == FuncPercent(MergeContents(S, testBlocks), fn)

\* C1: when Find has returned a Result, every function that is at or above
\* the threshold under the union of all successfully-run tests is at or above
\* the threshold under the union of the tests of KeptTests alone.
C1_TargetsPreserved ==
    (findPc = "done" /\ findResult.err = "none") =>
        \A fn \in Funcs :
            UnionPercent(testCoverageFiles, fn) >= threshold
                => UnionPercent(Range(findResult.KeptTests), fn) >= threshold

C4_ExactlyOneKept ==
    (pc = "done" /\ threshold > 0) =>
        \A x, y \in InputNames \ baselineTests :
            (x # y /\ SameOnTargets(x, y) /\ NonEmptyOnTargets(x)) =>
                \/ (x \in Kept /\ y \notin Kept /\ y \in Redundant)
                \/ (y \in Kept /\ x \notin Kept /\ x \in Redundant)

\* C4 (amended): of two non-baseline tests with identical coverage over the
\* target functions, at most one is in KeptTests, and when there is at least
\* one target function at least one of the two is in RedundantTests.
C4_AtMostOneKept ==
    \A x, y \in InputNames \ baselineTests :
        (x # y /\ SameOnTargets(x, y)) =>
            /\ ~(x \in Kept /\ y \in Kept)
            /\ (pc = "done" /\ targetFunctions # {}) =>
                   (x \in Redundant \/ y \in Redundant)

C4_Witness ==
    /\ pc = "done"
    /\ \E x, y \in InputNames \ baselineTests :
          /\ x # y
          /\ SameOnTargets(x, y)
          /\ x \in Kept
          /\ y \in Redundant
          /\ \E fn \in remainingGaps : Cov(y)[fn] > 0

\* ---------------------------------------------------------------- C5
\* C5 (as stated): if each of two tests is the only test with non-zero
\* coverage of its own target function, both are in KeptTests.
C5_BothKept ==
    pc = "done" =>
        \A x, y \in InputNames :
            \A fx, fy \in targetFunctions :
                (x # y /\ fx # fy /\ SoleSource(x, fx) /\ SoleSource(y, fy))
                    => (x \in Kept /\ y \in Kept)

\* C5 (amended): the same, for a threshold above 0.
C5_BothKeptPositive ==
    (pc = "done" /\ threshold > 0) =>
        \A x, y \in InputNames :
            \A fx, fy \in targetFunctions :
                (x # y /\ fx # fy /\ SoleSource(x, fx) /\ SoleSource(y, fy))
                    => (x \in Kept /\ y \in Kept)

C5_Witness ==
    /\ pc = "done"
    /\ threshold > 0
    /\ \E x, y \in InputNames :
          \E fx, fy \in targetFunctions :
              /\ x # y /\ fx # fy
              /\ SoleSource(x, fx) /\ SoleSource(y, fy)
              /\ Cov(x)[fx] < threshold
              /\ x \in Kept /\ y \in Kept

\* ---------------------------------------------------------------- C6
\* C6: if non-baseline X is at least non-baseline Y on every target function,
\* no step commits Y while X is already kept.
C6_DominatedNeverCommitted ==
    [][\A x, y \in InputNames \ baselineTests :
          (x # y /\ Dominates(x, y) /\ x \in keptTests)
              => ~(y \notin keptTests /\ y \in keptTests')]_vars

C6_Witness ==
    /\ pc = "done"
    /\ \E x, y \in InputNames \ baselineTests :
          /\ x # y
          /\ Dominates(x, y)
          /\ x \in Kept
          /\ y \notin Kept
          /\ Len(keptOrder) >= 2
          /\ \E fn \in remainingGaps : Cov(y)[fn] > 0

\* ---------------------------------------------------------------- C7
\* C7: the threshold comparison is inclusive.  Find's target set is exactly
\* the functions whose merged coverage is >= threshold; and whenever a test
\* is committed, a gap whose running coverage now equals the threshold is
\* removed from remainingGaps and a gap whose running coverage is still
\* strictly below the threshold stays in it.
C7_InclusiveThreshold ==
    /\ [](findPc \in {"build", "select"} =>
            targetFunctions =
                {fn \in Funcs : UnionPercent(testCoverageFiles, fn) >= threshold})
    /\ [][keptOrder' # keptOrder =>
            \A fn \in remainingGaps :
                /\ currentCoverage'[fn] = threshold => fn \notin remainingGaps'
                /\ currentCoverage'[fn] < threshold => fn \in remainingGaps']_vars

C7_Witness ==
    /\ findPc = "select"
    /\ pc = "loop"
    /\ threshold > 0
    /\ \E fn, gn \in targetFunctions :
          /\ currentCoverage[fn] = threshold
          /\ currentCoverage[fn] < 1000
          /\ UnionPercent(testCoverageFiles, fn) = threshold
          /\ fn \notin remainingGaps
          /\ currentCoverage[gn] < threshold
          /\ gn \in remainingGaps

\* ---------------------------------------------------------------- C8
\* C8 (as stated): if some test's coverage of target fn is >= threshold, then
\* on return KeptTests holds a test whose coverage of fn is >= threshold; and
\* committing a test whose coverage of fn is below the threshold never
\* removes fn from remainingGaps.
C8_ReachingTestKept ==
    /\ [](pc = "done" =>
            \A fn \in targetFunctions :
                (\E t \in InputNames : Cov(t)[fn] >= threshold)
                    => \E k \in Kept : Cov(k)[fn] >= threshold)
    /\ [][\A fn \in remainingGaps :
            (keptOrder' # keptOrder /\ Cov(bestTest')[fn] < threshold)
                => fn \in remainingGaps']_vars

\* C8 (amended): the same, the first half for a threshold above 0.
C8_ReachingTestKeptPositive ==
    /\ []((pc = "done" /\ threshold > 0) =>
            \A fn \in targetFunctions :
                (\E t \in InputNames : Cov(t)[fn] >= threshold)
                    => \E k \in Kept : Cov(k)[fn] >= threshold)
    /\ [][\A fn \in remainingGaps :
            (keptOrder' # keptOrder /\ Cov(bestTest')[fn] < threshold)
                => fn \in remainingGaps']_vars

C8_Witness ==
    /\ pc = "done"
    /\ threshold > 0
    /\ Len(keptOrder) = 2
    /\ \E fn \in targetFunctions :
          /\ Cov(keptOrder[1])[fn] > 0
          /\ Cov(keptOrder[1])[fn] < threshold
          /\ Cov(keptOrder[2])[fn] >= threshold

\* ---------------------------------------------------------------- C9
\* C9: when SelectMinimalSet has returned, every test of allCoverage is in
\* exactly one of KeptTests and RedundantTests.
C9_Partition ==
    pc = "done" =>
        \A t \in InputNames : (t \in Kept) # (t \in Redundant)

\* ---------------------------------------------------------------- C10
\* the pool an iteration takes its winner from: the not-yet-kept baseline
\* tests when one of them improves a gap, else the not-yet-kept others
PoolCount(t) == countGapImprovements(Cov(t), remainingGaps, currentCoverage)

Pool ==
    LET base == (InputNames \cap baselineTests) \ keptTests
    IN  IF \E b \in base : PoolCount(b) > 0
        THEN base
        ELSE (InputNames \ baselineTests) \ keptTests

\* C10: the test a step commits is in the pool, no test of the pool has a
\* greater improvement count, and every test of the pool that is earlier in
\* input order has a strictly smaller count.
C10_GreatestFirst ==
    [][keptOrder' # keptOrder =>
          /\ bestTest' \in Pool
          /\ keptOrder' = Append(keptOrder, bestTest')
          /\ bestImprovements' = PoolCount(bestTest')
          /\ \A u \in Pool : PoolCount(u) <= PoolCount(bestTest')
          /\ \A u \in Pool :
                PosOf(u) < PosOf(bestTest') => PoolCount(u) < PoolCount(bestTest')]_vars

C10_Witness ==
    /\ pc = "done"
    /\ Len(keptOrder) >= 1
    /\ \E u \in InputNames \ baselineTests :
          /\ keptOrder[1] \notin baselineTests
          /\ u # keptOrder[1]
          /\ PosOf(keptOrder[1]) < PosOf(u)
          /\ Cardinality({fn \in targetFunctions : Cov(u)[fn] > 0})
               = Cardinality({fn \in targetFunctions : Cov(keptOrder[1])[fn] > 0})
          /\ Cardinality(targetFunctions) = 2
          /\ \E fn \in targetFunctions : Cov(u)[fn] # Cov(keptOrder[1])[fn]

\* ---------------------------------------------------------------- C11
\* C11 (as stated, on runs with a threshold above 0): whenever the selection
\* loop of SelectMinimalSet has stopped with remainingGaps non-empty, every
\* function still in remainingGaps is below the threshold even under the
\* merge of the profiles of every candidate test, and Find still returns the
\* kept / redundant lists and no error.
C11_GapsUnreachable ==
    (findPc \in {"select", "done"} /\ pc = "done" /\ threshold > 0
        /\ remainingGaps # {}) =>
        /\ \A fn \in remainingGaps :
               UnionPercent(testCoverageFiles, fn) < threshold
        /\ findPc = "done" =>
               /\ findResult.err = "none"
               /\ findResult.KeptTests = keptOrder
               /\ findResult.RedundantTests = redundant

\* ================================================================ BlockSet
\* internal/coverage/coverage.go: a BlockSet maps a block ID to its
\* BlockInfo (statement count, covered flag).  A BlockSet is a function from
\* a set of block IDs to BlockInfo records.
BlockIDs == {"k1", "k2"}

\* the greatest statement count of a block
MaxStatements == 2

\* the greatest number of Merge calls on one receiver
MaxMerges == 4

BlockInfos == [Statements : 1..MaxStatements, Covered : BOOLEAN]

BlockSets == UNION {[D -> BlockInfos] : D \in SUBSET BlockIDs}

\* &BlockSet{Blocks: make(map[string]BlockInfo)}
EmptyBlockSet == <<>>

Clone(bs) == [k \in DOMAIN bs |-> bs[k]]

Merge_Overwrite(bs, other) ==
    [k \in DOMAIN bs \cup DOMAIN other |->
        IF k \in DOMAIN other THEN other[k] ELSE bs[k]]

Merge_Intersect(bs, other) ==
    [k \in DOMAIN bs \cup DOMAIN other |->
        IF k \in DOMAIN bs
        THEN IF k \in DOMAIN other
             THEN [Statements |-> bs[k].Statements,
                   Covered |-> bs[k].Covered /\ other[k].Covered]
             ELSE bs[k]
        ELSE other[k]]

Merge(bs, other) ==
    [k \in DOMAIN bs \cup DOMAIN other |->
        IF k \in DOMAIN bs
        THEN IF k \in DOMAIN other
             THEN [Statements |-> bs[k].Statements,
                   Covered |-> bs[k].Covered \/ other[k].Covered]
             ELSE bs[k]
        ELSE other[k]]

\* sum of info.Statements over the keys of S
RECURSIVE SumStatements(_, _)
SumStatements(bs, S) ==
    IF S = {} THEN 0
    ELSE LET k == CHOOSE x \in S : TRUE
         IN  bs[k].Statements + SumStatements(bs, S \ {k})

CoveredStatements(bs) ==
    SumStatements(bs, {k \in DOMAIN bs : bs[k].Covered})

TotalStatements(bs) == SumStatements(bs, DOMAIN bs)

CountNewStatements_AllCovered(bs, other) ==
    SumStatements(other, {k \in DOMAIN other : other[k].Covered})

CountNewStatements(bs, other) ==
    SumStatements(other,
        {k \in DOMAIN other :
            other[k].Covered /\ (k \notin DOMAIN bs \/ ~bs[k].Covered)})

\* the profile a tag of bsArgs stands for
Arg(tag) == IF tag = "A" THEN bsA ELSE bsB

\* the selector and Find are not running
SelectFindIdle ==
    /\ allCoverage = <<>>
    /\ baselineTests = {}
    /\ targetFunctions = {}
    /\ threshold = 0
    /\ currentCoverage = <<>>
    /\ remainingGaps = {}
    /\ keptTests = {}
    /\ keptOrder = <<>>
    /\ bestTest = NoTest
    /\ bestImprovements = 0
    /\ redundant = <<>>
    /\ pc = "idle"
    /\ allTests = <<>>
    /\ testBlocks = <<>>
    /\ finished = {}
    /\ testCoverageFiles = {}
    /\ findPc = "off"
    /\ findResult = NoResult
    /\ ctxDone = FALSE
    /\ testErr = <<>>
    /\ finishOrder = <<>>
    /\ buildIdx = 0
    /\ buildFailed = {}

\* two parsed profiles and an empty receiver
InitBlockSet ==
    /\ bsA \in BlockSets
    /\ bsB \in BlockSets
    /\ blockSet = EmptyBlockSet
    /\ bsPrev = EmptyBlockSet
    /\ bsArgs = <<>>
    /\ bsNew = 0
    /\ ParseIdle
    /\ MergeIdle
    /\ SelectFindIdle
    /\ RunIdle
    /\ ToolIdle

\* the caller counts the statements a profile would add, then merges it into
\* the receiver
BlockSetMerge(tag) ==
    /\ Len(bsArgs) < MaxMerges
    /\ bsNew' = CountNewStatements(blockSet, Arg(tag))
    /\ bsPrev' = Clone(blockSet)
    /\ blockSet' = Merge(blockSet, Arg(tag))
    /\ bsArgs' = Append(bsArgs, tag)
    /\ UNCHANGED <<bsA, bsB>>
    /\ UNCHANGED <<selectVars, findVars, parseVars, mergeVars>>
    /\ UNCHANGED runVars
    /\ UNCHANGED toolVars

NextBlockSet == \E tag \in {"A", "B"} : BlockSetMerge(tag)

SpecBlockSet == InitBlockSet /\ [][NextBlockSet]_vars

CoveredPairs(bs) == {<<k, bs[k].Covered>> : k \in DOMAIN bs}

\* ---------------------------------------------------------------- C12
\* C12: Merge is idempotent and commutative on the key-to-covered mapping:
\* merging a profile a second time right after merging it leaves the receiver
\* as it was, and A merged with B has the same (key, covered) pairs as B
\* merged with A.
C12_IdempotentCommutative ==
    /\ (Len(bsArgs) >= 2 /\ bsArgs[Len(bsArgs)] = bsArgs[Len(bsArgs) - 1])
           => blockSet = bsPrev
    /\ bsArgs = <<"A", "B">>
           => CoveredPairs(blockSet) = CoveredPairs(Merge(Clone(bsB), bsA))
    /\ bsArgs = <<"B", "A">>
           => CoveredPairs(blockSet) = CoveredPairs(Merge(Clone(bsA), bsB))

\* A and B share a key on which they disagree, and both orders have run to
\* the second merge of B into (A merged with B)
C12_Witness ==
    /\ bsArgs = <<"A", "B", "B">>
    /\ \E k \in DOMAIN bsA \cap DOMAIN bsB : bsA[k].Covered # bsB[k].Covered
    /\ DOMAIN bsA # DOMAIN bsB
    /\ blockSet = bsPrev

\* ---------------------------------------------------------------- C13
\* C13: across every Merge call no key of the receiver is removed, no
\* Covered flag goes from true to false, and CoveredStatements() does not
\* decrease.
C13_Monotone ==
    [][ /\ DOMAIN blockSet \subseteq DOMAIN blockSet'
        /\ \A k \in DOMAIN blockSet : blockSet[k].Covered => blockSet'[k].Covered
        /\ CoveredStatements(blockSet') >= CoveredStatements(blockSet) ]_vars

\* a covered key of the receiver met an uncovered record of the merged
\* profile, and the merge added a key
C13_Witness ==
    /\ Len(bsArgs) >= 2
    /\ \E k \in DOMAIN bsPrev :
          /\ bsPrev[k].Covered
          /\ k \in DOMAIN Arg(bsArgs[Len(bsArgs)])
          /\ ~Arg(bsArgs[Len(bsArgs)])[k].Covered
    /\ DOMAIN bsPrev # DOMAIN blockSet
    /\ CoveredStatements(blockSet) > CoveredStatements(bsPrev)

\* ---------------------------------------------------------------- C14
\* the receiver and the profile give every key they share the same statement
\* count
SameStatements(bs, other) ==
    \A k \in DOMAIN bs \cap DOMAIN other :
        bs[k].Statements = other[k].Statements

DigitChars == <<"0", "1", "2", "3", "4", "5", "6", "7", "8", "9">>

WhiteSpace == {" ", "\t"}

\* strings.Split(s, sep) for a one-character separator
RECURSIVE Split(_, _)
Split(s, sep) ==
    IF s = <<>> THEN << <<>> >>
    ELSE LET rest == Split(Tail(s), sep)
         IN  IF Head(s) = sep THEN << <<>> >> \o rest
             ELSE << <<Head(s)>> \o Head(rest) >> \o Tail(rest)

\* strings.Fields(s): the maximal runs of non-space characters
RECURSIVE Fields(_)
Fields(s) ==
    IF s = <<>> THEN <<>>
    ELSE IF Head(s) \in WhiteSpace THEN Fields(Tail(s))
    ELSE LET n == CHOOSE i \in 1..Len(s) :
                      /\ \A j \in 1..i : s[j] \notin WhiteSpace
                      /\ (i = Len(s) \/ s[i + 1] \in WhiteSpace)
         IN  <<SubSeq(s, 1, n)>> \o Fields(SubSeq(s, n + 1, Len(s)))

IsDigit(c) == \E d \in 1..10 : DigitChars[d] = c

DigitValue(c) == (CHOOSE d \in 1..10 : DigitChars[d] = c) - 1

RECURSIVE DigitsValue(_)
DigitsValue(s) ==
    IF s = <<>> THEN 0
    ELSE 10 * DigitsValue(SubSeq(s, 1, Len(s) - 1)) + DigitValue(s[Len(s)])

\* strconv.Atoi with the error dropped (n, _ := strconv.Atoi(s)): an optional
\* sign and at least one digit, otherwise 0
Atoi(s) ==
    LET signed == s # <<>> /\ Head(s) \in {"+", "-"}
        digits == IF signed THEN Tail(s) ELSE s
    IN  IF digits = <<>> \/ \E i \in 1..Len(digits) : ~IsDigit(digits[i])
        THEN 0
        ELSE IF s[1] = "-" THEN 0 - DigitsValue(digits)
        ELSE DigitsValue(digits)

\* the verb %d of fmt.Sprintf
RECURSIVE Itoa(_)
Itoa(n) ==
    IF n < 0 THEN <<"-">> \o Itoa(0 - n)
    ELSE IF n < 10 THEN <<DigitChars[n + 1]>>
    ELSE Itoa(n \div 10) \o <<DigitChars[(n % 10) + 1]>>

\* Block{}
ZeroBlock ==
    [File |-> <<>>, StartLine |-> 0, StartCol |-> 0, EndLine |-> 0,
     EndCol |-> 0, Statements |-> 0, Count |-> 0]

ParseBlockID(blockID) ==
    LET fileParts == Split(blockID, ":")
        rangeParts == Split(fileParts[2], ",")
        startParts == Split(rangeParts[1], ".")
        endParts == Split(rangeParts[2], ".")
        bad == [err |-> TRUE, file |-> <<>>, startLine |-> 0, startCol |-> 0,
                endLine |-> 0, endCol |-> 0]
    IN  IF Len(fileParts) # 2 THEN bad
        ELSE IF Len(rangeParts) # 2 THEN bad
        ELSE IF Len(startParts) # 2 THEN bad
        ELSE IF Len(endParts) # 2 THEN bad
        ELSE [err |-> FALSE, file |-> fileParts[1],
              startLine |-> Atoi(startParts[1]),
              startCol |-> Atoi(startParts[2]),
              endLine |-> Atoi(endParts[1]),
              endCol |-> Atoi(endParts[2])]

ParseBlock(line) ==
    LET parts == Fields(line)
        id == ParseBlockID(parts[1])
    IN  IF Len(parts) # 3 THEN [err |-> TRUE, Block |-> ZeroBlock]
        ELSE IF id.err THEN [err |-> TRUE, Block |-> ZeroBlock]
        ELSE [err |-> FALSE,
              Block |-> [File |-> id.file,
                         StartLine |-> id.startLine,
                         StartCol |-> id.startCol,
                         EndLine |-> id.endLine,
                         EndCol |-> id.endCol,
                         Statements |-> Atoi(parts[2]),
                         Count |-> Atoi(parts[3])]]

FormatBlock_CountFirst(b) ==
    b.File \o <<":">> \o Itoa(b.StartLine) \o <<".">> \o Itoa(b.StartCol)
        \o <<",">> \o Itoa(b.EndLine) \o <<".">> \o Itoa(b.EndCol)
        \o <<" ">> \o Itoa(b.Count) \o <<" ">> \o Itoa(b.Statements)

FormatBlock(b) ==
    b.File \o <<":">> \o Itoa(b.StartLine) \o <<".">> \o Itoa(b.StartCol)
        \o <<",">> \o Itoa(b.EndLine) \o <<".">> \o Itoa(b.EndCol)
        \o <<" ">> \o Itoa(b.Statements) \o <<" ">> \o Itoa(b.Count)

\* file names handed to FormatBlock: plain, with a directory, with the
\* separators of the range inside the name, with a colon, with a space
FileNames ==
    { <<"a", ".", "g", "o">>,
      <<"p", "/", "a", "_", "1", ".", "g", "o">>,
      <<"a", ".", "b", "-", "c", ".", "g", "o">>,
      <<"a", ",", "b", ".", "g", "o">>,
      <<"C", ":", "/", "a", ".", "g", "o">>,
      <<"a", " ", "b", ".", "g", "o">> }

LineNumbers == {0, 1, 10}

ColNumbers == {1, 25}

StatementCounts == {0, 3}

ExecutionCounts == {-1, 0, 12}

BlockValues ==
    [File : FileNames, StartLine : LineNumbers, StartCol : ColNumbers,
     EndLine : LineNumbers, EndCol : ColNumbers,
     Statements : StatementCounts, Count : ExecutionCounts]

InitParse ==
    /\ pbBlock \in BlockValues
    /\ pbLine = <<>>
    /\ pbResult = [err |-> FALSE, Block |-> ZeroBlock]
    /\ pbPc = "format"
    /\ BlockSetIdle
    /\ MergeIdle
    /\ SelectFindIdle
    /\ RunIdle
    /\ ToolIdle

\* line := coverage.FormatBlock(block)
ParseFormat ==
    /\ pbPc = "format"
    /\ pbLine' = FormatBlock(pbBlock)
    /\ pbPc' = "parse"
    /\ UNCHANGED <<pbBlock, pbResult>>
    /\ UNCHANGED <<selectVars, findVars, blockSetVars, mergeVars>>
    /\ UNCHANGED runVars
    /\ UNCHANGED toolVars

\* block, err := coverage.ParseBlock(line)
ParseParse ==
    /\ pbPc = "parse"
    /\ pbResult' = ParseBlock(pbLine)
    /\ pbPc' = "done"
    /\ UNCHANGED <<pbBlock, pbLine>>
    /\ UNCHANGED <<selectVars, findVars, blockSetVars, mergeVars>>
    /\ UNCHANGED runVars
    /\ UNCHANGED toolVars

NextParse == ParseFormat \/ ParseParse

SpecParse == InitParse /\ [][NextParse]_vars

\* ---------------------------------------------------------------- C15
\* the characters of the file names of well-formed blocks
FileAlphabet ==
    {"a", "b", "c", "p", "g", "o", "C", "/", "_", ".", "-"}
        \cup Range(DigitChars)

\* a well-formed block: a file name over FileAlphabet ending in ".go",
\* 1-based positions with the end line not before the start line,
\* non-negative statement and execution counts
WellFormed(b) ==
    /\ Len(b.File) >= 4
    /\ SubSeq(b.File, Len(b.File) - 2, Len(b.File)) = <<".", "g", "o">>
    /\ \A i \in 1..Len(b.File) : b.File[i] \in FileAlphabet
    /\ b.StartLine >= 1 /\ b.StartCol >= 1
    /\ b.EndLine >= b.StartLine /\ b.EndCol >= 1
    /\ b.Statements >= 0 /\ b.Count >= 0

\* C15: for every well-formed block, ParseBlock(FormatBlock(block)) returns
\* no error and a block equal to the original in all seven fields.
C15_RoundTrip ==
    (pbPc = "done" /\ WellFormed(pbBlock)) =>
        /\ pbResult.err = FALSE
        /\ pbResult.Block.File = pbBlock.File
        /\ pbResult.Block.StartLine = pbBlock.StartLine
        /\ pbResult.Block.StartCol = pbBlock.StartCol
        /\ pbResult.Block.EndLine = pbBlock.EndLine
        /\ pbResult.Block.EndCol = pbBlock.EndCol
        /\ pbResult.Block.Statements = pbBlock.Statements
        /\ pbResult.Block.Count = pbBlock.Count

\* a well-formed block with dots inside the file name, numbers of two digits
\* and different statement and execution counts has made the round trip
C15_Witness ==
    /\ pbPc = "done"
    /\ WellFormed(pbBlock)
    /\ pbBlock.File = <<"a", ".", "b", "-", "c", ".", "g", "o">>
    /\ pbBlock.StartLine = 10 /\ pbBlock.StartCol = 25
    /\ pbBlock.Statements = 3 /\ pbBlock.Count = 12
    /\ pbResult = [err |-> FALSE, Block |-> pbBlock]

\* ================================================================ merging
\* part_004 (MergeBlocks, MergeContents) and internal/coverage/coverage.go
\* (MergeBlocksFile, MergeFiles).  A content (a string holding a profile) is
\* the sequence of its lines, strings.Split(content, "\n"): the empty string
\* is the one empty line, and a content ending in "\n" ends in an empty line.
EmptyString == << <<>> >>

\* strings.Join(lines, "\n"), as a sequence of lines
JoinLines(lines) == IF lines = <<>> THEN EmptyString ELSE lines

\* strings.Contains(line, sub)
Contains(line, sub) ==
    \E i \in 1..(Len(line) - Len(sub) + 1) :
        SubSeq(line, i, i + Len(sub) - 1) = sub

QtplMark == <<".", "q", "t", "p", "l", ":">>

\* the greatest number of contents in one call
MaxContents == 2

\* the greatest number of block lines of one content
MaxLines == 2

blockKey_WithCount(b) ==
    <<b.File, b.StartLine, b.StartCol, b.EndLine, b.EndCol, b.Statements,
      b.Count>>

\* the key MergeBlocks gives a block: "%s:%d.%d,%d.%d %d"
blockKey(b) ==
    <<b.File, b.StartLine, b.StartCol, b.EndLine, b.EndCol, b.Statements>>

\* the five fields MergeBlocksFile compares
blockPos(b) == <<b.File, b.StartLine, b.StartCol, b.EndLine, b.EndCol>>

\* lines 103-125 of part_004: the map after the lines have been read; the
\* map is the set of its values, one per key
RECURSIVE mergedBlocks(_, _)
mergedBlocks(lines, blocks) ==
    IF lines = <<>> THEN blocks
    ELSE LET line == Head(lines)
             parsed == ParseBlock(line)
             block == parsed.Block
             same == {e \in blocks : blockKey(e) = blockKey(block)}
         IN  IF line = <<>> \/ parsed.err
             THEN mergedBlocks(Tail(lines), blocks)
             ELSE IF same # {}
             THEN mergedBlocks(Tail(lines),
                      (blocks \ same) \cup
                      {[e EXCEPT !.Count = e.Count + block.Count] : e \in same})
             ELSE mergedBlocks(Tail(lines), blocks \cup {block})

\* the orders in which a range over a map with values S can visit them
Orders(S) ==
    {o \in [1..Cardinality(S) -> S] :
        \A i, j \in 1..Cardinality(S) : o[i] = o[j] => i = j}

\* MergeBlocks: the set of strings a call can return; the blocks are written
\* in the iteration order of a Go map, which the language leaves unspecified
MergeBlocks(content) ==
    IF content = EmptyString THEN {EmptyString}
    ELSE LET modeLine == content[1]
             blocks == mergedBlocks(Tail(content), {})
         IN  {<<modeLine>> \o [i \in 1..Cardinality(blocks) |-> FormatBlock(o[i])]
                  \o EmptyString : o \in Orders(blocks)}

\* lines 211-229 of part_004: the block lines of every content, without the
\* first line of each, empty lines and .qtpl lines
RECURSIVE allBlocks(_)
allBlocks(contents) ==
    IF contents = <<>> THEN <<>>
    ELSE SelectSeq(Tail(Head(contents)),
                   LAMBDA line : ~(line = <<>> \/ Contains(line, QtplMark)))
         \o allBlocks(Tail(contents))

MergeContentsLines_LastMode(contents) ==
    IF Len(contents) = 0
    THEN [err |-> "no contents to merge", out |-> {EmptyString}]
    ELSE [err |-> "none",
          out |-> MergeBlocks(<<contents[Len(contents)][1]>>
                              \o JoinLines(allBlocks(contents)))]

\* MergeContents: the error and the set of strings a call can return
MergeContentsLines(contents) ==
    IF Len(contents) = 0
    THEN [err |-> "no contents to merge", out |-> {EmptyString}]
    ELSE [err |-> "none",
          out |-> MergeBlocks(<<contents[1][1]>>
                              \o JoinLines(allBlocks(contents)))]

countOf_Zero(blockCounts, blockID) == 0

\* blockCounts[blockID] of MergeBlocksFile, 0 for an absent key
countOf(blockCounts, blockID) ==
    IF blockID \in DOMAIN blockCounts THEN blockCounts[blockID] ELSE 0

\* lines 114-160 of coverage.go: the blocks slice after the lines have been
\* read; blockCounts is keyed by the text of the block ID, the slice is
\* searched by the five parsed fields
RECURSIVE dedupedBlocks(_, _, _)
dedupedBlocks(lines, blocks, blockCounts) ==
    IF lines = <<>> THEN blocks
    ELSE LET line == Head(lines)
             parts == Fields(line)
             blockID == parts[1]
             id == ParseBlockID(blockID)
             total == countOf(blockCounts, blockID) + Atoi(parts[3])
             counts == [x \in DOMAIN blockCounts \cup {blockID} |->
                           IF x = blockID THEN total ELSE blockCounts[x]]
             pos == <<id.file, id.startLine, id.startCol, id.endLine, id.endCol>>
             found == {i \in 1..Len(blocks) : blockPos(blocks[i]) = pos}
             first == CHOOSE i \in found : \A j \in found : i <= j
         IN  IF line = <<>> THEN dedupedBlocks(Tail(lines), blocks, blockCounts)
             ELSE IF Len(parts) # 3
             THEN dedupedBlocks(Tail(lines), blocks, blockCounts)
             ELSE IF id.err
             THEN dedupedBlocks(Tail(lines), blocks, blockCounts)
             ELSE IF found # {}
             THEN dedupedBlocks(Tail(lines),
                                [blocks EXCEPT ![first].Count = total], counts)
             ELSE dedupedBlocks(Tail(lines),
                                Append(blocks,
                                       [File |-> id.file,
                                        StartLine |-> id.startLine,
                                        StartCol |-> id.startCol,
                                        EndLine |-> id.endLine,
                                        EndCol |-> id.endCol,
                                        Statements |-> Atoi(parts[2]),
                                        Count |-> total]),
                                counts)

\* the characters of the model in byte order
CharOrder ==
    <<"\t", " ", "+", ",", "-", ".", "/", "0", "1", "2", "3", "4", "5", "6",
      "7", "8", "9", ":", "C", "_", "a", "b", "c", "d", "e", "g", "i", "l",
      "m", "o", "p", "q", "s", "t", "x">>

charRank(c) == CHOOSE i \in 1..Len(CharOrder) : CharOrder[i] = c

\* s < t for Go strings
RECURSIVE lessString(_, _)
lessString(s, t) ==
    IF t = <<>> THEN FALSE
    ELSE IF s = <<>> THEN TRUE
    ELSE IF Head(s) # Head(t) THEN charRank(Head(s)) < charRank(Head(t))
    ELSE lessString(Tail(s), Tail(t))

\* the less function handed to sort.Slice (coverage.go:170-180)
lessBlock(a, b) ==
    IF a.File # b.File THEN lessString(a.File, b.File)
    ELSE IF a.StartLine # b.StartLine THEN a.StartLine < b.StartLine
    ELSE a.StartCol < b.StartCol

\* sort.Slice on a slice of at most 12 elements is an insertion sort: each
\* element moves left past the elements it is less than
RECURSIVE insertBlock(_, _)
insertBlock(sorted, b) ==
    IF sorted = <<>> THEN <<b>>
    ELSE IF lessBlock(b, sorted[Len(sorted)])
         THEN Append(insertBlock(SubSeq(sorted, 1, Len(sorted) - 1), b),
                     sorted[Len(sorted)])
         ELSE Append(sorted, b)

RECURSIVE sortBlocks(_)
sortBlocks(blocks) ==
    IF blocks = <<>> THEN <<>>
    ELSE insertBlock(sortBlocks(SubSeq(blocks, 1, Len(blocks) - 1)),
                     blocks[Len(blocks)])

\* MergeBlocksFile: the content of the file after the call
MergeBlocksFile(content) ==
    LET mode == content[1]
        blocks == sortBlocks(dedupedBlocks(Tail(content), <<>>, <<>>))
    IN  <<mode>> \o [i \in 1..Len(blocks) |-> FormatBlock(blocks[i])]
            \o EmptyString

\* MergeFiles: the content of outputFile after the call
MergeFiles(contents) ==
    IF Len(contents) = 0 THEN [err |-> "no files to merge", out |-> EmptyString]
    ELSE [err |-> "none",
          out |-> MergeBlocksFile(<<contents[1][1]>>
                                  \o JoinLines(allBlocks(contents)))]

ModeSet == <<"m", "o", "d", "e", ":", " ", "s", "e", "t">>

ModeAtomic == <<"m", "o", "d", "e", ":", " ", "a", "t", "o", "m", "i", "c">>

FileA == <<"a", ".", "g", "o">>

FileB == <<"b", ".", "g", "o">>

FileQtpl == <<"t", ".", "q", "t", "p", "l">>

\* a block of one line at the top of a file
blockAt(file, statements, count) ==
    [File |-> file, StartLine |-> 1, StartCol |-> 1, EndLine |-> 2,
     EndCol |-> 1, Statements |-> statements, Count |-> count]

\* the lines a profile is made of: a block of a.go, the same block with
\* another statement count, a block of b.go, a line that is no block, and a
\* block of a template file
BlockLines ==
    { FormatBlock(blockAt(FileA, 1, 1)),
      FormatBlock(blockAt(FileA, 2, 1)),
      FormatBlock(blockAt(FileB, 1, 1)),
      <<"x">>,
      FormatBlock(blockAt(FileQtpl, 1, 1)) }

\* a profile: a mode line, block lines, and the empty line after the last
\* "\n"; or the empty string
Contents ==
    {EmptyString} \cup
    UNION {{<<mode>> \o ls \o EmptyString : ls \in [1..n -> BlockLines]} :
              mode \in {ModeSet, ModeAtomic}, n \in 0..MaxLines}

NoOutput == [err |-> "none", out |-> EmptyString]

InitMerge ==
    /\ \E n \in 0..MaxContents : mgContents \in [1..n -> Contents]
    /\ mgOut1 = NoOutput
    /\ mgOut2 = NoOutput
    /\ mgFile = NoOutput
    /\ mgPc = "call1"
    /\ BlockSetIdle
    /\ ParseIdle
    /\ SelectFindIdle
    /\ RunIdle
    /\ ToolIdle

\* merged, err := coverage.MergeContents(contents)
MergeCall1 ==
    /\ mgPc = "call1"
    /\ LET r == MergeContentsLines(mgContents)
       IN  \E o \in r.out : mgOut1' = [err |-> r.err, out |-> o]
    /\ mgPc' = "call2"
    /\ UNCHANGED <<mgContents, mgOut2, mgFile>>
    /\ UNCHANGED <<selectVars, findVars, blockSetVars, parseVars>>
    /\ UNCHANGED runVars
    /\ UNCHANGED toolVars

\* the same call once more, in another run of the program
MergeCall2 ==
    /\ mgPc = "call2"
    /\ LET r == MergeContentsLines(mgContents)
       IN  \E o \in r.out : mgOut2' = [err |-> r.err, out |-> o]
    /\ mgPc' = "files"
    /\ UNCHANGED <<mgContents, mgOut1, mgFile>>
    /\ UNCHANGED <<selectVars, findVars, blockSetVars, parseVars>>
    /\ UNCHANGED runVars
    /\ UNCHANGED toolVars

\* err := coverage.MergeFiles(files, outputFile) on files with these contents
MergeFilesCall ==
    /\ mgPc = "files"
    /\ mgFile' = MergeFiles(mgContents)
    /\ mgPc' = "done"
    /\ UNCHANGED <<mgContents, mgOut1, mgOut2>>
    /\ UNCHANGED <<selectVars, findVars, blockSetVars, parseVars>>
    /\ UNCHANGED runVars
    /\ UNCHANGED toolVars

NextMerge == MergeCall1 \/ MergeCall2 \/ MergeFilesCall

SpecMerge == InitMerge /\ [][NextMerge]_vars

\* ---------------------------------------------------------------- C16
\* the lines after the first of every content, in input order
RECURSIVE inputLines(_)
inputLines(contents) ==
    IF contents = <<>> THEN <<>>
    ELSE Tail(Head(contents)) \o inputLines(Tail(contents))

\* the records of a sequence of lines: the blocks of the lines that parse
RECURSIVE recordsOf(_)
recordsOf(lines) ==
    IF lines = <<>> THEN <<>>
    ELSE LET parsed == ParseBlock(Head(lines))
         IN  IF Head(lines) = <<>> \/ parsed.err
             THEN recordsOf(Tail(lines))
             ELSE <<parsed.Block>> \o recordsOf(Tail(lines))

InputRecords == recordsOf(inputLines(mgContents))

\* no two records of the output have the same (file, startLine, startCol,
\* endLine, endCol)
OneRecordPerKey(out) ==
    LET recs == recordsOf(Tail(out))
    IN  \A i, j \in 1..Len(recs) :
            blockPos(recs[i]) = blockPos(recs[j]) => i = j

\* the input records with the same key carry the same statement count
InputsAgree ==
    LET recs == Range(InputRecords)
    IN  \A r, q \in recs :
            blockPos(r) = blockPos(q) => r.Statements = q.Statements

MergeReturned == mgPc \in {"call2", "files", "done"} /\ mgOut1.err = "none"

FilesReturned == mgPc = "done" /\ mgFile.err = "none"

\* C16 (as stated): the output of MergeContents (which is the output of
\* MergeBlocks) and the file MergeFiles leaves behind (which MergeBlocksFile
\* wrote) hold at most one record per block key (file, startLine, startCol,
\* endLine, endCol).
C16_OneRecordPerKey ==
    /\ MergeReturned => OneRecordPerKey(mgOut1.out)
    /\ FilesReturned => OneRecordPerKey(mgFile.out)

\* C16 (amended): MergeBlocksFile writes at most one record per block key;
\* MergeBlocks and MergeContents write at most one record per block key and
\* statement count, hence one per block key when the input records with the
\* same key carry the same statement count.
C16_OneRecordPerKeyAndStatements ==
    /\ MergeReturned =>
           LET recs == recordsOf(Tail(mgOut1.out))
           IN  /\ \A i, j \in 1..Len(recs) :
                      blockKey(recs[i]) = blockKey(recs[j]) => i = j
               /\ InputsAgree => OneRecordPerKey(mgOut1.out)
    /\ FilesReturned => OneRecordPerKey(mgFile.out)

\* the same record came in three times, next to a record of another file,
\* and both merges wrote two records
C16_Witness ==
    /\ FilesReturned /\ MergeReturned
    /\ InputsAgree
    /\ LET ins == InputRecords
       IN  \E i, j, k \in 1..Len(ins) :
               i < j /\ j < k /\ ins[i] = ins[j] /\ ins[j] = ins[k]
    /\ Len(recordsOf(Tail(mgOut1.out))) = 2
    /\ Len(recordsOf(Tail(mgFile.out))) = 2

\* ---------------------------------------------------------------- C17
\* the sum of the execution counts of the records with the key pos
RECURSIVE sumCounts(_, _)
sumCounts(recs, pos) ==
    IF recs = <<>> THEN 0
    ELSE (IF blockPos(Head(recs)) = pos THEN Head(recs).Count ELSE 0)
         + sumCounts(Tail(recs), pos)

\* every record of the output carries the sum of the counts of the input
\* records with its key
CountsAreSums(out) ==
    LET recs == recordsOf(Tail(out))
        ins == InputRecords
    IN  \A i \in 1..Len(recs) :
            recs[i].Count = sumCounts(ins, blockPos(recs[i]))

C18_Deterministic ==
    mgPc \in {"files", "done"} => mgOut1 = mgOut2

\* ---------------------------------------------------------------- C19
\* C19: the first line of the merged output, of MergeContents and of
\* MergeFiles, is the first line (the mode line) of the first input.
C19_FirstModeLine ==
    /\ MergeReturned => mgOut1.out[1] = mgContents[1][1]
    /\ FilesReturned => mgFile.out[1] = mgContents[1][1]

\* two contents with different mode lines and blocks were merged
C19_Witness ==
    /\ FilesReturned /\ MergeReturned
    /\ Len(mgContents) = 2
    /\ mgContents[1][1] = ModeAtomic
    /\ mgContents[2][1] = ModeSet
    /\ Len(recordsOf(Tail(mgOut1.out))) >= 1
    /\ mgOut1.out[1] = ModeAtomic
    /\ mgFile.out[1] = ModeAtomic

\* ================================================================ test runs
\* Step 3 of findRedundantTestsWithConfig (main.go:293-417) and of Find
\* (find.go:80-153): every test of allTestsToRun is run once.  A test is
\* idle, then (when a goroutine was started for it) spawned, running between
\* the start and the end of its "go test" process, and done.
\* the greatest number of tests to run
MaxRunTests == 3

\* the greatest value of runtime.NumCPU()
MaxWorkers == 2

RunTestNames == 1..MaxRunTests

\* main.go:331-341
serialTests(tests, parallel) ==
    SelectSeq(tests, LAMBDA t : t \notin parallel)

parallelSafeTests(tests, parallel) ==
    SelectSeq(tests, LAMBDA t : t \in parallel)

\* the goroutines whose "go test" process is executing
Running == {t \in DOMAIN runState : runState[t] = "running"}

\* find.go:93-109, main.go:367-383: the goroutines that have sent on sem and
\* have not yet run the deferred receive
SlotHolders ==
    {t \in DOMAIN runState :
        runState[t] \in {"running", "ended", "inMap", "wantOrder", "inOrder",
                         "exit"}}

\* sem := make(chan struct{}, numWorkers); a send on an unbuffered-by-mistake
\* or unlimited channel would never block
semSend_NoLimit(holders, n) == TRUE

\* find.go:92,102 / main.go:366,376: sem <- struct{}{} proceeds while the
\* channel buffer (capacity numWorkers) has room
semSend(holders, n) == Cardinality(holders) < n

\* a Lock that does not wait for the holder
Lock_NoWait(mu) == TRUE

\* sync.Mutex.Lock (find.go:145, main.go:403,407) proceeds when no goroutine
\* holds the mutex
Lock(mu) == mu = NoTest

\* a Wait that returns at once
wgWait_NoWait(state) == TRUE

\* find.go:153, main.go:416: wg.Wait() returns when every goroutine has run
\* its deferred wg.Done()
wgWait(state) == \A t \in DOMAIN state : state[t] = "done"

InitRun ==
    /\ \E n \in 0..MaxRunTests :
          /\ runTests = [i \in 1..n |-> i]
          /\ runState = [t \in 1..n |-> "idle"]
          /\ parallelTests \in SUBSET (1..n)
    /\ numWorkers \in 1..MaxWorkers
    /\ runVariant \in {"main", "find"}
    /\ runStarted = <<>>
    /\ runFiles = {}
    /\ allTestOrder = <<>>
    /\ testCoverageFilesMu = NoTest
    /\ allTestOrderMu = NoTest
    /\ runSucceeded = {}
    /\ runRead = <<>>
    /\ runPc = "start"
    /\ CoverageIdle
    /\ SelectFindIdle
    /\ ToolIdle

\* main.go:344-356 and 302-329: the loop over serialTests calls
\* runSingleTest for the next serial test; its "go test" process begins
RunSerialStart ==
    /\ runVariant = "main"
    /\ runPc = "start"
    /\ Running = {}
    /\ LET serial == serialTests(runTests, parallelTests)
           idle == {i \in 1..Len(serial) : runState[serial[i]] = "idle"}
       IN  /\ idle # {}
           /\ LET i == CHOOSE k \in idle : \A j \in idle : k <= j
              IN  /\ runState' = [runState EXCEPT ![serial[i]] = "running"]
                  /\ runStarted' = Append(runStarted, serial[i])
    /\ UNCHANGED <<runTests, parallelTests, numWorkers, runVariant, runFiles,
                   allTestOrder, testCoverageFilesMu, allTestOrderMu,
                   runSucceeded, runRead, runPc>>
    /\ UNCHANGED <<selectVars, findVars, coverageVars>>
    /\ UNCHANGED toolVars

\* main.go:305-329: runSingleTest returns; on success it has written the
\* test's entry in testCoverageFiles and appended it to allTestOrder (no
\* goroutine exists yet, no mutex is taken)
RunSerialEnd ==
    /\ runVariant = "main"
    /\ runPc = "start"
    /\ \E t \in Running :
          /\ runState' = [runState EXCEPT ![t] = "done"]
          /\ \E ok \in BOOLEAN :
                IF ok
                THEN /\ runFiles' = runFiles \cup {t}
                     /\ allTestOrder' = Append(allTestOrder, t)
                     /\ runSucceeded' = runSucceeded \cup {t}
                ELSE UNCHANGED <<runFiles, allTestOrder, runSucceeded>>
    /\ UNCHANGED <<runTests, parallelTests, numWorkers, runVariant,
                   runStarted, testCoverageFilesMu, allTestOrderMu, runRead,
                   runPc>>
    /\ UNCHANGED <<selectVars, findVars, coverageVars>>
    /\ UNCHANGED toolVars

\* main.go:358-371: after the serial loop, one goroutine per parallel-safe
\* test
RunParallelSpawn ==
    /\ runVariant = "main"
    /\ runPc = "start"
    /\ \A t \in Range(runTests) \ parallelTests : runState[t] = "done"
    /\ runState' = [t \in DOMAIN runState |->
                       IF t \in parallelTests THEN "spawned" ELSE runState[t]]
    /\ runPc' = "pool"
    /\ UNCHANGED <<runTests, parallelTests, numWorkers, runVariant,
                   runStarted, runFiles, allTestOrder, testCoverageFilesMu,
                   allTestOrderMu, runSucceeded, runRead>>
    /\ UNCHANGED <<selectVars, findVars, coverageVars>>
    /\ UNCHANGED toolVars

\* find.go:88-99: one goroutine per test of allTestsToRun
RunFindSpawn ==
    /\ runVariant = "find"
    /\ runPc = "start"
    /\ runState' = [t \in DOMAIN runState |-> "spawned"]
    /\ runPc' = "pool"
    /\ UNCHANGED <<runTests, parallelTests, numWorkers, runVariant,
                   runStarted, runFiles, allTestOrder, testCoverageFilesMu,
                   allTestOrderMu, runSucceeded, runRead>>
    /\ UNCHANGED <<selectVars, findVars, coverageVars>>
    /\ UNCHANGED toolVars

\* find.go:102-109, main.go:376-383: sem <- struct{}{} succeeds while fewer
\* than numWorkers goroutines hold a slot; the "go test" process begins
RunAcquire(t) ==
    /\ runPc \in {"pool", "done", "read"}
    /\ t \in DOMAIN runState
    /\ runState[t] = "spawned"
    /\ semSend(SlotHolders, numWorkers)
    /\ runState' = [runState EXCEPT ![t] = "running"]
    /\ runStarted' = Append(runStarted, t)
    /\ UNCHANGED <<runTests, parallelTests, numWorkers, runVariant, runFiles,
                   allTestOrder, testCoverageFilesMu, allTestOrderMu,
                   runSucceeded, runRead, runPc>>
    /\ UNCHANGED <<selectVars, findVars, coverageVars>>
    /\ UNCHANGED toolVars

\* find.go:108-141, main.go:382-401: the process ends; when the run, the
\* read, the filter or the write failed the goroutine returns, otherwise the
\* filtered profile is on disk and the goroutine goes on to the map
RunEnd(t) ==
    /\ runPc \in {"pool", "done", "read"}
    /\ t \in DOMAIN runState
    /\ runState[t] = "running"
    /\ \E ok \in BOOLEAN :
          /\ runState' = [runState EXCEPT ![t] = IF ok THEN "ended" ELSE "exit"]
          /\ runSucceeded' = IF ok THEN runSucceeded \cup {t} ELSE runSucceeded
    /\ UNCHANGED <<runTests, parallelTests, numWorkers, runVariant,
                   runStarted, runFiles, allTestOrder, testCoverageFilesMu,
                   allTestOrderMu, runRead, runPc>>
    /\ UNCHANGED <<selectVars, findVars, coverageVars>>
    /\ UNCHANGED toolVars

\* find.go:145, main.go:403: testCoverageFilesMu.Lock()
RunLockMap(t) ==
    /\ runPc \in {"pool", "done", "read"}
    /\ t \in DOMAIN runState
    /\ runState[t] = "ended"
    /\ Lock(testCoverageFilesMu)
    /\ testCoverageFilesMu' = t
    /\ runState' = [runState EXCEPT ![t] = "inMap"]
    /\ UNCHANGED <<runTests, parallelTests, numWorkers, runVariant,
                   runStarted, runFiles, allTestOrder, allTestOrderMu,
                   runSucceeded, runRead, runPc>>
    /\ UNCHANGED <<selectVars, findVars, coverageVars>>
    /\ UNCHANGED toolVars

\* find.go:146-147, main.go:404-405: the map entry is written and the mutex
\* released; Find's goroutine then returns, findRedundantTestsWithConfig's
\* goes on to allTestOrder
RunWriteMap(t) ==
    /\ runPc \in {"pool", "done", "read"}
    /\ t \in DOMAIN runState
    /\ runState[t] = "inMap"
    /\ runFiles' = runFiles \cup {t}
    /\ testCoverageFilesMu' = NoTest
    /\ runState' = [runState EXCEPT
                       ![t] = IF runVariant = "main" THEN "wantOrder" ELSE "exit"]
    /\ UNCHANGED <<runTests, parallelTests, numWorkers, runVariant,
                   runStarted, allTestOrder, allTestOrderMu, runSucceeded,
                   runRead, runPc>>
    /\ UNCHANGED <<selectVars, findVars, coverageVars>>
    /\ UNCHANGED toolVars

\* main.go:407: allTestOrderMu.Lock()
RunLockOrder(t) ==
    /\ runPc \in {"pool", "done", "read"}
    /\ t \in DOMAIN runState
    /\ runState[t] = "wantOrder"
    /\ Lock(allTestOrderMu)
    /\ allTestOrderMu' = t
    /\ runState' = [runState EXCEPT ![t] = "inOrder"]
    /\ UNCHANGED <<runTests, parallelTests, numWorkers, runVariant,
                   runStarted, runFiles, allTestOrder, testCoverageFilesMu,
                   runSucceeded, runRead, runPc>>
    /\ UNCHANGED <<selectVars, findVars, coverageVars>>
    /\ UNCHANGED toolVars

\* main.go:408-409: the append to allTestOrder and the Unlock
RunAppendOrder(t) ==
    /\ runPc \in {"pool", "done", "read"}
    /\ t \in DOMAIN runState
    /\ runState[t] = "inOrder"
    /\ allTestOrder' = Append(allTestOrder, t)
    /\ allTestOrderMu' = NoTest
    /\ runState' = [runState EXCEPT ![t] = "exit"]
    /\ UNCHANGED <<runTests, parallelTests, numWorkers, runVariant,
                   runStarted, runFiles, testCoverageFilesMu, runSucceeded,
                   runRead, runPc>>
    /\ UNCHANGED <<selectVars, findVars, coverageVars>>
    /\ UNCHANGED toolVars

\* find.go:99-103, main.go:373-377: the deferred calls free the semaphore
\* slot and mark the goroutine done
RunRelease(t) ==
    /\ runPc \in {"pool", "done", "read"}
    /\ t \in DOMAIN runState
    /\ runState[t] = "exit"
    /\ runState' = [runState EXCEPT ![t] = "done"]
    /\ UNCHANGED <<runTests, parallelTests, numWorkers, runVariant,
                   runStarted, runFiles, allTestOrder, testCoverageFilesMu,
                   allTestOrderMu, runSucceeded, runRead, runPc>>
    /\ UNCHANGED <<selectVars, findVars, coverageVars>>
    /\ UNCHANGED toolVars

\* find.go:153, main.go:416: wg.Wait() returns
RunWait ==
    /\ runPc = "pool"
    /\ wgWait(runState)
    /\ runPc' = "done"
    /\ UNCHANGED <<runTests, parallelTests, numWorkers, runVariant, runState,
                   runStarted, runFiles, allTestOrder, testCoverageFilesMu,
                   allTestOrderMu, runSucceeded, runRead>>
    /\ UNCHANGED <<selectVars, findVars, coverageVars>>
    /\ UNCHANGED toolVars

\* find.go:155-161, main.go:418-424: step 4 ranges over testCoverageFiles
RunRead ==
    /\ runPc = "done"
    /\ runRead' = <<runFiles>>
    /\ runPc' = "read"
    /\ UNCHANGED <<runTests, parallelTests, numWorkers, runVariant, runState,
                   runStarted, runFiles, allTestOrder, testCoverageFilesMu,
                   allTestOrderMu, runSucceeded>>
    /\ UNCHANGED <<selectVars, findVars, coverageVars>>
    /\ UNCHANGED toolVars

NextRun ==
    \/ RunSerialStart
    \/ RunSerialEnd
    \/ RunParallelSpawn
    \/ RunFindSpawn
    \/ \E t \in RunTestNames : RunAcquire(t)
    \/ \E t \in RunTestNames : RunEnd(t)
    \/ \E t \in RunTestNames : RunLockMap(t)
    \/ \E t \in RunTestNames : RunWriteMap(t)
    \/ \E t \in RunTestNames : RunLockOrder(t)
    \/ \E t \in RunTestNames : RunAppendOrder(t)
    \/ \E t \in RunTestNames : RunRelease(t)
    \/ RunWait
    \/ RunRead

SpecRun == InitRun /\ [][NextRun]_vars

\* ---------------------------------------------------------------- C20
\* s is a prefix of t
IsPrefix(s, t) == Len(s) <= Len(t) /\ SubSeq(t, 1, Len(s)) = s

\* C20: while a test that is not classified parallel-safe is running no
\* other test is running, and the tests that are not parallel-safe begin in
\* list order.
C20_SerialAlone ==
    /\ \A t \in Running : t \notin parallelTests => Running = {t}
    /\ IsPrefix(serialTests(runStarted, parallelTests),
                serialTests(runTests, parallelTests))
\* ================================================================ Find: failures
\* the tests whose run failed: the goroutine took one of its early returns,
\* or step 5 could not read or analyse the coverage file
FailedTests == {t \in finished : testErr[t] # "ok"} \cup buildFailed

\* ---------------------------------------------------------------- C21
\* C21: when Find has returned, a test whose run failed (runner error, or
\* unreadable, unfilterable or unwritable coverage output) is in neither
\* KeptTests nor RedundantTests of the Result.
C21_FailedDropped ==
    findPc = "done" =>
        \A t \in FailedTests :
            /\ t \notin Range(findResult.KeptTests)
            /\ t \notin Range(findResult.RedundantTests)

C21_Witness ==
    /\ findPc = "done"
    /\ findResult.err = "none"
    /\ findResult.KeptTests # <<>>
    /\ targetFunctions # {}
    /\ \E t \in finished : testErr[t] \in {"run", "read", "filter", "write"}

\* ---------------------------------------------------------------- C22
\* C22: if no test ran successfully, Find returns an error and reaches
\* neither target computation nor selection; if at least one did, the "no
\* tests ran successfully" error is not raised and the step that leaves the
\* run phase is target computation.
C22_NoUsableCoverage ==
    /\ []((findPc = "done" /\ testCoverageFiles = {}) =>
            findResult.err \notin {"none", "failed to analyze coverage"})
    /\ [](testCoverageFiles = {} =>
            (findPc \notin {"build", "select"} /\ pc = "idle"
                /\ targetFunctions = {}))
    /\ [](findResult.err = "no tests ran successfully" =>
            testCoverageFiles = {})
    /\ [][(findPc = "run" /\ findPc' # "run") =>
            IF testCoverageFiles = {}
            THEN findResult'.err = "no tests ran successfully"
            ELSE \/ findPc' = "build"
                 \/ findResult'.err = "failed to analyze coverage"]_vars

C22_Witness ==
    /\ findPc = "done"
    /\ findResult.err = "no tests ran successfully"
    /\ Len(allTests) = MaxFindTests
    /\ \E t, u \in finished : testErr[t] = "run" /\ testErr[u] = "write"

\* ---------------------------------------------------------------- C23
\* the tests whose run succeeded but whose coverage is missing from the
\* input of SelectMinimalSet
MissingFromSelection == testCoverageFiles \ InputNames

\* C23: if the context is cancelled before Find completes, Find returns an
\* error; it never returns a Result computed from only part of the per-test
\* coverage data.
C23_CancelIsError ==
    (findPc = "done" /\ ctxDone) =>
        /\ findResult.err # "none"
        /\ findResult.err = "none" => MissingFromSelection = {}

\* ---------------------------------------------------------------- C27
RECURSIVE selectKept(_, _, _, _, _, _, _)
\* the kept list SelectMinimalSet returns, as a function of its arguments
selectKept(all, base, targets, th, kept, cur, gaps) ==
    IF gaps = {} THEN kept
    ELSE LET best == selectBest(all, base, Range(kept), gaps, cur)
             c == mergeCoverage(cur, coverageByTest(all, best[1]), targets)
         IN  IF best[2] = 0 THEN kept
             ELSE selectKept(all, base, targets, th, Append(kept, best[1]),
                             c, updateGaps(gaps, c, th))

\* what the inputs of Find alone determine: the discovered tests in order,
\* the baseline set, the threshold, each test's coverage and which tests
\* yielded coverage; the completion order of the goroutines plays no part
ExpectedKept ==
    LET order == filterTests(allTests, baselineTests, TRUE)
                     \o filterTests(allTests, baselineTests, FALSE)
        all == testCoverages(order, testCoverageFiles \ buildFailed, testBlocks)
        targets == {fn \in Funcs :
                       UnionPercent(testCoverageFiles, fn) >= threshold}
    IN  IF Len(all) = 0 \/ targets = {} THEN <<>>
        ELSE selectKept(all, baselineTests, targets, threshold, <<>>,
                        [fn \in targets |-> 0], targets)

MaxMainTests == 2

MainTestNames == 1..MaxMainTests

MainResult(e, kept, red, rep) ==
    [err |-> e, KeptTests |-> kept, RedundantTests |-> red, reported |-> rep]

\* lines 489-537: the gap functions the candidate improves; nil when the
\* candidate has no coverage file or its merge or "go tool cover" run fails
\* (failed: the candidates for which that happens in this round)
evalCandidate(test, mergedSoFar, gaps, currCov, failed) ==
    IF test \notin testCoverageFiles \/ test \in failed THEN {}
    ELSE IF mergedSoFar = <<>>
         THEN {fn \in gaps : FuncPercent(testBlocks[test], fn) > currCov[fn]}
         ELSE {fn \in gaps :
                  FuncPercent(mergedSoFar[1] \cup testBlocks[test], fn)
                      > currCov[fn]}

RECURSIVE scanResults(_, _, _)
\* lines 591-600: "for _, r := range results", results[idx] being the
\* outcome of candidate idx whatever order the goroutines ended in
scanResults(candidates, failed, best) ==
    IF candidates = <<>> THEN best
    ELSE LET improved == evalCandidate(Head(candidates), currentMergedFile,
                                       remainingGaps, currentCoverage, failed)
         IN  IF Cardinality(improved) > best[2]
             THEN scanResults(Tail(candidates), failed,
                              <<Head(candidates), Cardinality(improved)>>)
             ELSE scanResults(Tail(candidates), failed, best)

\* lines 540-603: the pool without the kept tests, evaluated and scanned
findBestTest(pool, failed) ==
    scanResults(SelectSeq(pool, LAMBDA t : t \notin keptTests), failed,
                <<NoTest, 0>>)

\* lines 606-615: baseline tests first, the others when no baseline test
\* fills a gap
mainBest(failed) ==
    LET b == findBestTest(filterTests(allTests, baselineTests, TRUE), failed)
    IN  IF b[2] = 0
        THEN findBestTest(filterTests(allTests, baselineTests, FALSE), failed)
        ELSE b

\* the tests an evaluation can fail for
Candidates == testCoverageFiles \ keptTests

\* lines 678-705: allTestOrder holds the tests whose run succeeded
mainRedundant == discoveredNotKept(
                     SelectSeq(allTests, LAMBDA t : t \in testCoverageFiles),
                     keptTests)

\* lines 738-746: "VALIDATION FAILED" is printed and the run returns an error
validationFailure(shortfall) == [abort |-> TRUE, printed |-> "failed"]

InitMain ==
    /\ \E n \in 0..MaxMainTests :
          /\ allTests = [i \in 1..n |-> i]
          /\ testBlocks \in [1..n -> SUBSET Blocks]
          /\ testCoverageFiles \in SUBSET (1..n)
    /\ baselineTests \in SUBSET MainTestNames
    /\ threshold \in Thresholds
    /\ allCoverage = <<>>
    /\ targetFunctions = {}
    /\ currentCoverage = <<>>
    /\ remainingGaps = {}
    /\ keptTests = {}
    /\ keptOrder = <<>>
    /\ bestTest = NoTest
    /\ bestImprovements = 0
    /\ redundant = <<>>
    /\ pc = "idle"
    /\ finished = {}
    /\ findPc = "off"
    /\ findResult = NoResult
    /\ ctxDone = FALSE
    /\ testErr = <<>>
    /\ finishOrder = <<>>
    /\ buildIdx = 0
    /\ buildFailed = {}
    /\ mainPc = "targets"
    /\ currentMergedFile = <<>>
    /\ validation = "none"
    /\ mainResult = MainResult("none", <<>>, <<>>, FALSE)
    /\ BaselineIdle
    /\ UnitIdle
    /\ CoverageIdle
    /\ RunIdle

\* lines 418-480: step 4, and the start of step 5
MainTargets ==
    /\ mainPc = "targets"
    /\ IF noCoverageFiles(testCoverageFiles)
       THEN /\ mainResult' = MainResult("no tests ran successfully",
                                        <<>>, <<>>, FALSE)
            /\ mainPc' = "done"
            /\ UNCHANGED <<targetFunctions, currentCoverage, remainingGaps>>
       ELSE LET targetCoverage ==
                    ParseFunctionCoverage(
                        MergeContents(testCoverageFiles, testBlocks))
                targetFuncs == {fn \in Funcs : targetCoverage[fn] >= threshold}
            IN  /\ targetFunctions' = targetFuncs
                /\ currentCoverage' = [fn \in targetFuncs |-> 0]
                /\ remainingGaps' = targetFuncs
                /\ mainPc' = "loop"
                /\ UNCHANGED mainResult
    /\ UNCHANGED <<allCoverage, baselineTests, threshold, keptTests, keptOrder,
                   bestTest, bestImprovements, redundant, pc>>
    /\ UNCHANGED <<currentMergedFile, validation>>
    /\ UNCHANGED <<findVars, baselineVars, coverageVars, runVars, unitVars>>

\* lines 606-671: an iteration that finds a test and keeps it
MainCommit ==
    /\ mainPc = "loop"
    /\ remainingGaps # {}
    /\ \E failed \in SUBSET Candidates :
          LET best == mainBest(failed)
              merged == IF currentMergedFile = <<>>
                        THEN testBlocks[best[1]]
                        ELSE currentMergedFile[1] \cup testBlocks[best[1]]
              cur == [fn \in targetFunctions |-> FuncPercent(merged, fn)]
          IN  /\ best[2] # 0
              /\ bestTest' = best[1]
              /\ bestImprovements' = best[2]
              /\ keptTests' = keptTests \cup {best[1]}
              /\ keptOrder' = Append(keptOrder, best[1])
              /\ currentMergedFile' = <<merged>>
              /\ currentCoverage' = cur
              /\ remainingGaps' = updateGaps(remainingGaps, cur, threshold)
    /\ UNCHANGED <<allCoverage, baselineTests, targetFunctions, threshold,
                   redundant, pc>>
    /\ UNCHANGED <<mainPc, validation, mainResult>>
    /\ UNCHANGED <<findVars, baselineVars, coverageVars, runVars, unitVars>>

\* lines 606, 617-620, 673-705: the loop ends and the redundant lists are
\* built
MainBreak ==
    /\ mainPc = "loop"
    /\ \/ remainingGaps = {}
       \/ \E failed \in SUBSET Candidates : mainBest(failed)[2] = 0
    /\ redundant' = mainRedundant
    /\ mainPc' = "validate"
    /\ UNCHANGED <<allCoverage, baselineTests, targetFunctions, threshold,
                   currentCoverage, remainingGaps, keptTests, keptOrder,
                   bestTest, bestImprovements, pc>>
    /\ UNCHANGED <<currentMergedFile, validation, mainResult>>
    /\ UNCHANGED <<findVars, baselineVars, coverageVars, runVars, unitVars>>

\* lines 707-750: step 6 merges the kept profiles anew and compares every
\* target function with the threshold
MainValidate ==
    /\ mainPc = "validate"
    /\ IF Len(keptOrder) = 0
       THEN /\ validation' = "skipped"
            /\ mainPc' = "report"
            /\ UNCHANGED mainResult
       ELSE LET finalCoverage ==
                    ParseFunctionCoverage(
                        MergeContents(Range(keptOrder), testBlocks))
                validationErrors ==
                    {fn \in targetFunctions : finalCoverage[fn] < threshold}
                v == validationFailure(validationErrors)
            IN  IF validationErrors # {}
                THEN /\ validation' = v.printed
                     /\ IF v.abort
                        THEN /\ mainResult' = MainResult("validation failed",
                                                         <<>>, <<>>, FALSE)
                             /\ mainPc' = "done"
                        ELSE /\ mainPc' = "report"
                             /\ UNCHANGED mainResult
                ELSE /\ validation' = "passed"
                     /\ mainPc' = "report"
                     /\ UNCHANGED mainResult
    /\ UNCHANGED selectVars
    /\ UNCHANGED currentMergedFile
    /\ UNCHANGED <<findVars, baselineVars, coverageVars, runVars, unitVars>>

\* lines 752-838: the kept and redundant tests are printed; return nil
MainReport ==
    /\ mainPc = "report"
    /\ mainResult' = MainResult("none", keptOrder, redundant, TRUE)
    /\ mainPc' = "done"
    /\ UNCHANGED selectVars
    /\ UNCHANGED <<currentMergedFile, validation>>
    /\ UNCHANGED <<findVars, baselineVars, coverageVars, runVars, unitVars>>

NextMain ==
    \/ MainTargets
    \/ MainCommit
    \/ MainBreak
    \/ MainValidate
    \/ MainReport

SpecMain == InitMain /\ [][NextMain]_vars

\* ---------------------------------------------------------------- C24
\* C24: when validation finds that the kept set leaves a target function
\* below the threshold, the run is not aborted: the shortfall is reported and
\* the kept and redundant results are still produced.
C24_ShortfallIsWarning ==
    (mainPc = "done" /\ validation = "failed") =>
        /\ mainResult.err = "none"
        /\ mainResult.reported

\* ---------------------------------------------------------------- C25
\* the target functions that the merged coverage of exactly the tests of
\* kept leaves below the threshold
Shortfall(kept) ==
    {fn \in targetFunctions : UnionPercent(kept, fn) < threshold}

\* C25: when the run returns after selection, the merged coverage of exactly
\* the kept tests has been recomputed from their own coverage records, and
\* if some target function is below the threshold under that recomputation a
\* validation shortfall has been reported.  Find (find.go:256-281) goes from
\* SelectMinimalSet straight to its return: it has no step 6, and
\* validation keeps the value it has before any validation line is printed.
C25_ShortfallReported ==
    (findPc = "done" /\ findResult.err = "none") =>
        (Shortfall(Range(findResult.KeptTests)) # {} => validation = "failed")

\* the same for findRedundantTestsWithConfig, which has a step 6
MainShortfallReported ==
    (mainPc \in {"report", "done"} /\ keptOrder # <<>>) =>
        (Shortfall(Range(keptOrder)) # {} <=> validation = "failed")

\* ================================================================ baseline classification (steps 1 and 2)
\* Package paths and test names are sequences of characters.  The names
\* stand for TestA, TestAB and TestB: the leading "Test" every test name has
\* is left out.  The configuration names packages by import path.

\* the greatest number of entries of Config.BaselineTests
MaxSpecs == 2

Packages == {<<"p">>, <<"q">>}

Patterns == {<<>>, <<"A">>, <<"A", "B">>, <<"B">>}

BaselineSpecs == [Package : Packages, TestPattern : Patterns]

\* what "go test -list" finds
DiscoveredTests ==
    << [Pkg |-> <<"p">>, Name |-> <<"A">>],
       [Pkg |-> <<"p">>, Name |-> <<"A", "B">>],
       [Pkg |-> <<"p">>, Name |-> <<"B">>],
       [Pkg |-> <<"q">>, Name |-> <<"A">>] >>

\* TestInfo.QualifiedName: t.Pkg + ":" + t.Name
QualifiedName(t) == t.Pkg \o <<":">> \o t.Name

\* strings.HasPrefix
HasPrefix(str, prefix) ==
    Len(prefix) <= Len(str) /\ SubSeq(str, 1, Len(prefix)) = prefix

\* listTests(spec.Package): the tests of the package
pkgTests(pkg) ==
    SelectSeq(DiscoveredTests, LAMBDA t : t.Pkg = pkg)

\* find.go:70 and main.go:279: a lookup of the qualified name
isBaseline_Exact(t) == QualifiedName(t) \in baselineTestSet

\* part_000:97-109: the exact names, then the package's prefix pattern
isBaseline_Pattern(t) ==
    \/ QualifiedName(t) \in baselineTestSet
    \/ /\ t.Pkg \in DOMAIN baselinePatterns
       /\ HasPrefix(t.Name, baselinePatterns[t.Pkg])

isBaseline(t) ==
    IF baselineVariant = "find" THEN isBaseline_Exact(t)
    ELSE isBaseline_Pattern(t)

InitBaseline ==
    /\ \E n \in 0..MaxSpecs : config \in [1..n -> BaselineSpecs]
    /\ baselineVariant \in {"find", "pattern"}
    /\ \E k \in 0..Len(DiscoveredTests) :
          classifyTests = SubSeq(DiscoveredTests, k + 1, Len(DiscoveredTests))
    /\ baselineTestSet = {}
    /\ baselinePatterns = <<>>
    /\ classified = <<>>
    /\ baselineIdx = 1
    /\ baselinePc = "specs"
    /\ MainIdle
    /\ UnitIdle
    /\ SelectFindIdle
    /\ CoverageIdle
    /\ RunIdle

\* find.go:36-54 and part_000:58-80: one entry of config.BaselineTests.  A
\* pattern entry resolves the package with "go list", whose failure ends the
\* run; Find then stores package + ":" + pattern among the exact names, the
\* block-level variant stores the pattern under the package.
BaselineSpecStep ==
    /\ baselinePc = "specs"
    /\ baselineIdx <= Len(config)
    /\ LET spec == config[baselineIdx]
       IN  IF spec.TestPattern # <<>>
           THEN \E fail \in BOOLEAN :
                   IF fail
                   THEN /\ baselinePc' = "error"
                        /\ UNCHANGED <<baselineTestSet, baselinePatterns,
                                       baselineIdx>>
                   ELSE /\ IF baselineVariant = "find"
                           THEN /\ baselineTestSet' = baselineTestSet \cup
                                       {spec.Package \o <<":">>
                                            \o spec.TestPattern}
                                /\ UNCHANGED baselinePatterns
                           ELSE /\ baselinePatterns' =
                                       [pkg \in DOMAIN baselinePatterns
                                                 \cup {spec.Package} |->
                                           IF pkg = spec.Package
                                           THEN spec.TestPattern
                                           ELSE baselinePatterns[pkg]]
                                /\ UNCHANGED baselineTestSet
                        /\ baselineIdx' = baselineIdx + 1
                        /\ UNCHANGED baselinePc
           ELSE /\ baselineTestSet' = baselineTestSet \cup
                       {QualifiedName(t) : t \in Range(pkgTests(spec.Package))}
                /\ baselineIdx' = baselineIdx + 1
                /\ UNCHANGED <<baselinePatterns, baselinePc>>
    /\ UNCHANGED <<config, baselineVariant, classifyTests, classified>>
    /\ UNCHANGED <<selectVars, findVars, mainVars, coverageVars, runVars, unitVars>>

\* find.go:56-64, part_000:82-90: step 1 is over, the tests are listed
BaselineList ==
    /\ baselinePc = "specs"
    /\ baselineIdx > Len(config)
    /\ baselinePc' = IF Len(classifyTests) = 0 THEN "done" ELSE "classify"
    /\ UNCHANGED <<config, baselineVariant, baselineTestSet, baselinePatterns,
                   classifyTests, classified, baselineIdx>>
    /\ UNCHANGED <<selectVars, findVars, mainVars, coverageVars, runVars, unitVars>>

\* find.go:69-75, part_000:111-117: one discovered test is put in
\* baselineTests or in nonBaselineTests
BaselineClassify ==
    /\ baselinePc = "classify"
    /\ Len(classified) < Len(classifyTests)
    /\ classified' = Append(classified,
                            isBaseline(classifyTests[Len(classified) + 1]))
    /\ baselinePc' = IF Len(classified) + 1 = Len(classifyTests)
                     THEN "done" ELSE "classify"
    /\ UNCHANGED <<config, baselineVariant, baselineTestSet, baselinePatterns,
                   classifyTests, baselineIdx>>
    /\ UNCHANGED <<selectVars, findVars, mainVars, coverageVars, runVars, unitVars>>

NextBaseline == BaselineSpecStep \/ BaselineList \/ BaselineClassify

SpecBaseline == InitBaseline /\ [][NextBaseline]_vars

\* ---------------------------------------------------------------- C26
\* the package of t has a baseline spec whose TestPattern is a prefix of the
\* name of t
PatternMatches(t) ==
    \E i \in 1..Len(config) :
        /\ config[i].Package = t.Pkg
        /\ HasPrefix(t.Name, config[i].TestPattern)

\* C26: a discovered test is classified as baseline if and only if its
\* qualified name is in the exact baseline set or its package has a baseline
\* spec whose TestPattern is a prefix of the test's name.
C26_BaselineIff ==
    \A i \in 1..Len(classified) :
        classified[i] <=>
            \/ QualifiedName(classifyTests[i]) \in baselineTestSet
            \/ PatternMatches(classifyTests[i])

\* ================================================================ SelectMinimalSet: the loop
\* the not-yet-kept baseline tests of the input
OpenBaseline == (InputNames \cap baselineTests) \ keptTests

\* ---------------------------------------------------------------- C28
\* C28: in every iteration of the selection loop a non-baseline test is
\* committed only if no not-yet-kept baseline test improves any function of
\* remainingGaps in that iteration (improving a function: being counted for
\* it by countGapImprovements).
C28_BaselineFirst ==
    [][(keptOrder' # keptOrder /\ bestTest' \notin baselineTests) =>
          \A b \in OpenBaseline :
              \A fn \in remainingGaps : ~(Cov(b)[fn] > currentCoverage[fn])]_vars

C28_Witness ==
    /\ pc = "done"
    /\ Len(keptOrder) = 2
    /\ keptOrder[1] \in baselineTests
    /\ keptOrder[2] \notin baselineTests
    /\ PosOf(keptOrder[2]) < PosOf(keptOrder[1])
    /\ Cardinality({fn \in targetFunctions : Cov(keptOrder[1])[fn] > 0}) = 1
    /\ Cardinality({fn \in targetFunctions : Cov(keptOrder[2])[fn] > 0}) = 2
    /\ \E b \in OpenBaseline : NonEmptyOnTargets(b)

\* ---------------------------------------------------------------- C29
\* the functions of gaps whose running percentage rises when the coverage
\* cov is merged into the running aggregate cur
RaisedByMerge(cov, gaps, cur) ==
    {fn \in gaps : mergeCoverage(cur, cov, targetFunctions)[fn] > cur[fn]}

C30_Monotone ==
    [][pc = "loop" =>
          /\ \/ keptOrder' = keptOrder
             \/ \E t \in InputNames : keptOrder' = Append(keptOrder, t)
          /\ keptTests \subseteq keptTests'
          /\ remainingGaps' \subseteq remainingGaps
          /\ \A fn \in targetFunctions :
                currentCoverage'[fn] >= currentCoverage[fn]]_vars

C30_Witness ==
    /\ pc = "done"
    /\ Len(keptOrder) = 2
    /\ remainingGaps = {}
    /\ \E fn \in targetFunctions :
          /\ Cov(keptOrder[2])[fn] < Cov(keptOrder[1])[fn]
          /\ currentCoverage[fn] = Cov(keptOrder[1])[fn]

\* ================================================================ the worker pool
\* ---------------------------------------------------------------- C31
\* C31: at every moment the number of "go test" processes executing at the
\* same time is at most numWorkers (runtime.NumCPU()), however many tests
\* are queued: every executing process belongs to a goroutine that holds one
\* of the numWorkers semaphore slots.
C31_BoundedPool ==
    /\ Cardinality(Running) <= numWorkers
    /\ Running \subseteq SlotHolders
    /\ Cardinality(SlotHolders) <= numWorkers

\* the pool is full and a further goroutine is blocked on the semaphore
C31_Witness ==
    /\ runPc = "pool"
    /\ numWorkers = 2
    /\ Cardinality(Running) = 2
    /\ \E t \in DOMAIN runState : runState[t] = "spawned"

\* ---------------------------------------------------------------- C32
\* the goroutines between Lock and Unlock of testCoverageFilesMu
InMap == {t \in DOMAIN runState : runState[t] = "inMap"}

\* the goroutines between Lock and Unlock of allTestOrderMu
InOrder == {t \in DOMAIN runState : runState[t] = "inOrder"}

\* C32: no two workers write testCoverageFiles at the same time and no two
\* append to allTestOrder at the same time: a worker that is about to write
\* either of them holds its mutex, and a mutex has one holder.
C32_WritesSerialized ==
    /\ Cardinality(InMap) <= 1
    /\ Cardinality(InOrder) <= 1
    /\ \A t \in InMap : testCoverageFilesMu = t
    /\ \A t \in InOrder : allTestOrderMu = t

\* one worker holds the map's mutex while another has finished its run and
\* is blocked in Lock
C32_Witness ==
    \E t, u \in DOMAIN runState :
        /\ runState[t] = "inMap"
        /\ runState[u] = "ended"
        /\ testCoverageFilesMu = t

\* ---------------------------------------------------------------- C40
\* C40: step 4 reads testCoverageFiles only after every worker goroutine has
\* finished: once wg.Wait() has returned no goroutine is left that could
\* write the map, the map holds an entry for exactly the tests whose run
\* succeeded, and that is what step 4 reads.
C40_ReadAfterWait ==
    runPc \in {"done", "read"} =>
        /\ \A t \in DOMAIN runState : runState[t] = "done"
        /\ testCoverageFilesMu = NoTest
        /\ runFiles = runSucceeded
        /\ runPc = "read" => runRead = <<runSucceeded>>

\* step 4 has read the map after a pool in which one run succeeded and
\* another failed
C40_Witness ==
    /\ runPc = "read"
    /\ \E t, u \in parallelTests :
          /\ t \in runSucceeded
          /\ u \notin runSucceeded
          /\ runRead = <<runFiles>>
          /\ t \in runFiles

\* ================================================================ coverage file names
\* Each worker writes "go test"'s profile to coverFile + ".raw", filters it
\* into coverFile and removes the raw file (find.go:105-143, main.go:306-324
\* and 379-401).  Two workers are started, each for one test.
\* the greatest number of path elements of a package
MaxPkgDepth == 2

\* the path elements packages are built from
PkgSegments == {<<"a">>, <<"b">>, <<"a", ".", "b">>, <<"a", "_", "b">>}

\* the test names ("T" stands for TestT)
FileTestNames == {<<"T">>, <<"U">>}

\* the two workers
NameWorkers == {1, 2}

\* the package paths of n elements
RECURSIVE PkgPaths(_)
PkgPaths(n) ==
    IF n = 1 THEN PkgSegments
    ELSE {p \o <<"/">> \o seg : p \in PkgPaths(n - 1), seg \in PkgSegments}

FilePackages == UNION {PkgPaths(n) : n \in 1..MaxPkgDepth}

\* path/filepath.Base: trailing separators are dropped, then everything up
\* to the last separator; "." for the empty path, "/" for a path of
\* separators only
RECURSIVE stripTrailingSlashes(_)
stripTrailingSlashes(path) ==
    IF path # <<>> /\ path[Len(path)] = "/"
    THEN stripTrailingSlashes(SubSeq(path, 1, Len(path) - 1))
    ELSE path

Base(path) ==
    IF path = <<>> THEN <<".">>
    ELSE LET stripped == stripTrailingSlashes(path)
         IN  IF stripped = <<>> THEN <<"/">>
             ELSE LET parts == Split(stripped, "/")
                  IN  parts[Len(parts)]

\* exec.go:55-66: the replacer maps "/", "\", ":" and "." to "_"
Sanitize(s) ==
    [i \in 1..Len(s) |->
        IF s[i] \in {"/", "\\", ":", "."} THEN "_" ELSE s[i]]

\* find.go:105, main.go:306,379:
\* fmt.Sprintf("cov_%s_%s.out", Sanitize(filepath.Base(test.Pkg)), test.Name)
coverFile(test) ==
    <<"c", "o", "v", "_">> \o Sanitize(Base(test.Pkg)) \o <<"_">>
        \o test.Name \o <<".", "o", "u", "t">>

InitNames ==
    /\ nameTests \in [NameWorkers -> [Pkg : FilePackages, Name : FileTestNames]]
    /\ coverFiles = [w \in NameWorkers |-> <<>>]
    /\ SelectFindIdle
    /\ CoverageIdle
    /\ RunIdle
    /\ MainIdle
    /\ BaselineIdle
    /\ EvalIdle
    /\ FuncCovIdle
    /\ BlockFindIdle

\* find.go:105-106: the worker computes coverFile (and coverFileRaw, which
\* is coverFile + ".raw") for its test
NameFile(w) ==
    /\ coverFiles[w] = <<>>
    /\ coverFiles' = [coverFiles EXCEPT ![w] = coverFile(nameTests[w])]
    /\ UNCHANGED nameTests
    /\ UNCHANGED <<selectVars, findVars, coverageVars, runVars, mainVars,
                   baselineVars, evalVars, funcCovVars,
                   blockFindVars>>

NextNames == \E w \in NameWorkers : NameFile(w)

SpecNames == InitNames /\ [][NextNames]_vars

\* ---------------------------------------------------------------- C33
\* C33: two tests with different qualified names are never given the same
\* coverage file name, so no two workers write or remove the same file.
C33_UniqueFiles ==
    \A v, w \in NameWorkers :
        (/\ coverFiles[v] # <<>>
         /\ coverFiles[w] # <<>>
         /\ QualifiedName(nameTests[v]) # QualifiedName(nameTests[w]))
            => coverFiles[v] # coverFiles[w]

\* ================================================================ findBestTest's goroutines
\* Step 5 of findRedundantTestsWithConfig (main.go:540-671) with the
\* goroutines of findBestTest as separate steps: the loop body calls
\* findBestTest for the baseline pool and, when that finds nothing, for the
\* other pool; every call starts one goroutine per candidate and waits for
\* all of them.
\* the goroutines that hold a slot of findBestTest's semaphore
EvalSlotHolders == {i \in DOMAIN evalState : evalState[i] = "running"}

\* the goroutines of the current pool that have not finished
EvalUnfinished == {i \in DOMAIN evalState : evalState[i] # "done"}

RECURSIVE pickBest(_, _, _, _)
\* main.go:591-600: "for _, r := range results", the first result with the
\* most improvements
pickBest(cands, res, i, best) ==
    IF i > Len(cands) THEN best
    ELSE IF Cardinality(res[i]) > best[2]
         THEN pickBest(cands, res, i + 1, <<cands[i], Cardinality(res[i])>>)
         ELSE pickBest(cands, res, i + 1, best)

InitEval == InitMain

\* main.go:606-613 and 540-582: findBestTest is called for a pool; the kept
\* tests are filtered out, the running state is copied and one goroutine per
\* candidate is started
EvalFind(kind) ==
    /\ mainPc = "loop"
    /\ \/ kind = "baseline" /\ evalPc = "idle" /\ remainingGaps # {}
       \/ /\ kind = "other"
          /\ evalPc = "picked"
          /\ evalPool = "baseline"
          /\ bestImprovements = 0
    /\ LET pool == filterTests(allTests, baselineTests, kind = "baseline")
           cands == SelectSeq(pool, LAMBDA t : t \notin keptTests)
       IN  /\ evalPool' = kind
           /\ evalCandidates' = cands
           /\ IF cands = <<>>
              THEN /\ bestTest' = NoTest
                   /\ bestImprovements' = 0
                   /\ evalPc' = "picked"
                   /\ UNCHANGED <<gapsCopy, covCopy, evalState, results>>
              ELSE /\ gapsCopy' = remainingGaps
                   /\ covCopy' = currentCoverage
                   /\ evalState' = [i \in 1..Len(cands) |-> "spawned"]
                   /\ results' = [i \in 1..Len(cands) |-> {}]
                   /\ evalPc' = "pool"
                   /\ UNCHANGED <<bestTest, bestImprovements>>
    /\ UNCHANGED <<allCoverage, baselineTests, targetFunctions, threshold,
                   currentCoverage, remainingGaps, keptTests, keptOrder,
                   redundant, pc>>
    /\ UNCHANGED <<findVars, mainVars, baselineVars, coverageVars, runVars,
                   nameVars, funcCovVars, blockFindVars>>

\* main.go:577-579: sem <- struct{}{} on a channel of capacity
\* runtime.NumCPU()*4
EvalAcquire(i) ==
    /\ i \in DOMAIN evalState
    /\ evalState[i] = "spawned"
    /\ semSend(EvalSlotHolders, 4 * numWorkers)
    /\ evalState' = [evalState EXCEPT ![i] = "running"]
    /\ UNCHANGED <<evalPc, evalPool, evalCandidates, gapsCopy, covCopy,
                   results>>
    /\ UNCHANGED <<selectVars, findVars, mainVars, baselineVars, coverageVars,
                   runVars, nameVars, funcCovVars, blockFindVars>>

\* main.go:581-582 and 576-579: the goroutine evaluates its candidate
\* against currentMergedFile and the copies, stores the outcome in its slot
\* of results and runs its deferred calls
EvalRun(i) ==
    /\ i \in DOMAIN evalState
    /\ evalState[i] = "running"
    /\ \E fail \in BOOLEAN :
          results' = [results EXCEPT
                         ![i] = evalCandidate(evalCandidates[i],
                                              currentMergedFile, gapsCopy,
                                              covCopy,
                                              IF fail THEN {evalCandidates[i]}
                                              ELSE {})]
    /\ evalState' = [evalState EXCEPT ![i] = "done"]
    /\ UNCHANGED <<evalPc, evalPool, evalCandidates, gapsCopy, covCopy>>
    /\ UNCHANGED <<selectVars, findVars, mainVars, baselineVars, coverageVars,
                   runVars, nameVars, funcCovVars, blockFindVars>>

\* main.go:586-602: wg.Wait() returns and results is scanned
EvalPick ==
    /\ mainPc = "loop"
    /\ evalPc = "pool"
    /\ wgWait(evalState)
    /\ LET best == pickBest(evalCandidates, results, 1, <<NoTest, 0>>)
       IN  /\ bestTest' = best[1]
           /\ bestImprovements' = best[2]
    /\ evalPc' = "picked"
    /\ UNCHANGED <<evalPool, evalCandidates, gapsCopy, covCopy, evalState,
                   results>>
    /\ UNCHANGED <<allCoverage, baselineTests, targetFunctions, threshold,
                   currentCoverage, remainingGaps, keptTests, keptOrder,
                   redundant, pc>>
    /\ UNCHANGED <<findVars, mainVars, baselineVars, coverageVars, runVars,
                   nameVars, funcCovVars, blockFindVars>>

\* main.go:622-671: the winner is kept, the running merged file, the
\* current coverage and the gaps are updated
EvalCommit ==
    /\ mainPc = "loop"
    /\ evalPc = "picked"
    /\ bestImprovements # 0
    /\ LET merged == IF currentMergedFile = <<>>
                     THEN testBlocks[bestTest]
                     ELSE currentMergedFile[1] \cup testBlocks[bestTest]
           cur == [fn \in targetFunctions |-> FuncPercent(merged, fn)]
       IN  /\ keptTests' = keptTests \cup {bestTest}
           /\ keptOrder' = Append(keptOrder, bestTest)
           /\ currentMergedFile' = <<merged>>
           /\ currentCoverage' = cur
           /\ remainingGaps' = updateGaps(remainingGaps, cur, threshold)
    /\ evalPc' = "idle"
    /\ UNCHANGED <<evalPool, evalCandidates, gapsCopy, covCopy, evalState,
                   results>>
    /\ UNCHANGED <<allCoverage, baselineTests, targetFunctions, threshold,
                   bestTest, bestImprovements, redundant, pc>>
    /\ UNCHANGED <<mainPc, validation, mainResult>>
    /\ UNCHANGED <<findVars, baselineVars, coverageVars, runVars, nameVars,
                   funcCovVars, blockFindVars>>

\* main.go:606, 617-620, 673-705: the loop ends, because no gap is left or
\* because neither pool has a test that improves one
EvalBreak ==
    /\ mainPc = "loop"
    /\ \/ evalPc = "idle" /\ remainingGaps = {}
       \/ evalPc = "picked" /\ evalPool = "other" /\ bestImprovements = 0
    /\ redundant' = mainRedundant
    /\ mainPc' = "validate"
    /\ evalPc' = "idle"
    /\ UNCHANGED <<evalPool, evalCandidates, gapsCopy, covCopy, evalState,
                   results>>
    /\ UNCHANGED <<allCoverage, baselineTests, targetFunctions, threshold,
                   currentCoverage, remainingGaps, keptTests, keptOrder,
                   bestTest, bestImprovements, pc>>
    /\ UNCHANGED <<currentMergedFile, validation, mainResult>>
    /\ UNCHANGED <<findVars, baselineVars, coverageVars, runVars, nameVars,
                   funcCovVars, blockFindVars>>

NextEval ==
    \/ MainTargets
    \/ EvalFind("baseline")
    \/ EvalFind("other")
    \/ \E i \in MainTestNames : EvalAcquire(i)
    \/ \E i \in MainTestNames : EvalRun(i)
    \/ EvalPick
    \/ EvalCommit
    \/ EvalBreak
    \/ MainValidate
    \/ MainReport

SpecEval == InitEval /\ [][NextEval]_vars

\* ---------------------------------------------------------------- C34
\* C34: in each iteration of the parallel selection loop the running
\* selection state (current coverage, remainingGaps, the kept set, the
\* current merged file) does not change while a candidate-evaluation
\* goroutine of the iteration has not finished, and a winner is chosen and
\* committed only when all of them have.
C34_CommitAfterEvaluations ==
    /\ [](evalPc = "picked" => EvalUnfinished = {})
    /\ [][EvalUnfinished # {} =>
              UNCHANGED <<currentCoverage, remainingGaps, keptTests,
                          keptOrder, currentMergedFile>>]_vars

\* a test has been committed that was chosen among two candidates, both of
\* which improve a gap, after both goroutines finished
C34_Witness ==
    /\ evalPc = "idle"
    /\ Len(keptOrder) = 1
    /\ Len(results) = 2
    /\ EvalUnfinished = {}
    /\ results[1] # {}
    /\ results[2] # {}

\* ================================================================ percentages
\* FunctionMap.ComputeFunctionCoverage (funcmap.go:160-202) and
\* BlockSet.CoveragePercent (coverage.go:396-403) on a block set.  A float64
\* quotient is kept as the pair of its operands; quotient(n, d) with d = 0
\* is a division by zero.
\* the greatest line number of a block or function
MaxFcLine == 2

FcFile == <<"f">>

FcOtherFile == <<"g">>

\* "file:line.1,line.9"
FcBlockID(file, line) ==
    file \o <<":">> \o Itoa(line) \o <<".", "1", ",">> \o Itoa(line)
         \o <<".", "9">>

\* the block ids of a profile: blocks of the mapped file, a block of a file
\* the map does not know and an id ParseBlockID rejects
FcBlockIDs ==
    {FcBlockID(FcFile, l) : l \in 1..MaxFcLine}
        \cup {FcBlockID(FcOtherFile, 1), <<"x">>}

FcBlockInfos == [Statements : 0..MaxStatements, Covered : BOOLEAN]

FcBlockSets == UNION {[D -> FcBlockInfos] : D \in SUBSET FcBlockIDs}

FcNames == {<<"A">>, <<"B">>}

FunctionBounds ==
    {b \in [Name : FcNames, StartLine : 1..MaxFcLine, EndLine : 1..MaxFcLine] :
        b.StartLine <= b.EndLine}

\* funcmap.go:98-103: the bounds of a file, sorted by StartLine; functions do
\* not overlap
FcBoundLists ==
    {<<>>} \cup {<<b>> : b \in FunctionBounds}
        \cup {<<a, b>> : a \in FunctionBounds, b \in FunctionBounds}

SortedBounds ==
    {bs \in FcBoundLists :
        \A i \in 1..(Len(bs) - 1) : bs[i].EndLine < bs[i + 1].StartLine}

\* float64(n) / float64(d)
quotient(n, d) == [num |-> n, den |-> d]

\* funcmap.go:142-158: the first function whose EndLine is at or after the
\* line, when it starts at or before it
FindFunction(fm, file, line) ==
    IF file \notin DOMAIN fm THEN <<>>
    ELSE LET bounds == fm[file]
             hits == {i \in 1..Len(bounds) : bounds[i].EndLine >= line}
             idx == IF hits = {} THEN Len(bounds) + 1
                    ELSE CHOOSE i \in hits : \A j \in hits : i <= j
         IN  IF /\ idx <= Len(bounds)
                /\ bounds[idx].StartLine <= line
                /\ line <= bounds[idx].EndLine
             THEN file \o <<":">> \o bounds[idx].Name
             ELSE <<>>

\* funcmap.go:171-181: the function a block is counted for, <<>> when the
\* block is skipped
blockFunction(fm, blockID) ==
    LET p == ParseBlockID(blockID)
    IN  IF p.err THEN <<>> ELSE FindFunction(fm, p.file, p.startLine)

RECURSIVE funcStats(_, _, _, _)
\* funcmap.go:169-191: "for blockID, info := range bs.Blocks"
funcStats(fm, bs, ids, stats) ==
    IF ids = {} THEN stats
    ELSE LET blockID == CHOOSE x \in ids : TRUE
             funcName == blockFunction(fm, blockID)
             old == IF funcName \in DOMAIN stats THEN stats[funcName]
                    ELSE [covered |-> 0, total |-> 0]
             new == [covered |-> IF bs[blockID].Covered
                                 THEN old.covered + bs[blockID].Statements
                                 ELSE old.covered,
                     total |-> old.total + bs[blockID].Statements]
         IN  IF funcName = <<>>
             THEN funcStats(fm, bs, ids \ {blockID}, stats)
             ELSE funcStats(fm, bs, ids \ {blockID},
                            [fn \in DOMAIN stats \cup {funcName} |->
                                IF fn = funcName THEN new ELSE stats[fn]])

\* every function gets a percentage
hasStatements_Always(total) == TRUE

\* funcmap.go:196 and coverage.go:399: the guard of the division
hasStatements(total) == total > 0

\* funcmap.go:162-202
ComputeFunctionCoverage(fm, bs) ==
    LET stats == funcStats(fm, bs, DOMAIN bs, <<>>)
        present == {fn \in DOMAIN stats : hasStatements(stats[fn].total)}
    IN  [fn \in present |->
            quotient(stats[fn].covered * 100, stats[fn].total)]

\* coverage.go:396-403
CoveragePercent(bs) ==
    LET total == TotalStatements(bs)
    IN  IF ~hasStatements(total) THEN quotient(0, 1)
        ELSE quotient(CoveredStatements(bs) * 100, total)

InitFuncCov ==
    /\ \E bounds \in SortedBounds : fcMap = [f \in {FcFile} |-> bounds]
    /\ fcBlocks \in FcBlockSets
    /\ fcResult = <<>>
    /\ fcPercent = <<>>
    /\ fcPc = {}
    /\ SelectFindIdle
    /\ CoverageIdle
    /\ RunIdle
    /\ MainIdle
    /\ BaselineIdle
    /\ NameIdle
    /\ EvalIdle
    /\ BlockFindIdle

\* a call of fm.ComputeFunctionCoverage(bs)
FuncCovCompute ==
    /\ "compute" \notin fcPc
    /\ fcResult' = ComputeFunctionCoverage(fcMap, fcBlocks)
    /\ fcPc' = fcPc \cup {"compute"}
    /\ UNCHANGED <<fcMap, fcBlocks, fcPercent>>
    /\ UNCHANGED <<selectVars, findVars, coverageVars, runVars, mainVars,
                   baselineVars, nameVars, evalVars, blockFindVars>>

\* a call of bs.CoveragePercent()
FuncCovPercent ==
    /\ "percent" \notin fcPc
    /\ fcPercent' = CoveragePercent(fcBlocks)
    /\ fcPc' = fcPc \cup {"percent"}
    /\ UNCHANGED <<fcMap, fcBlocks, fcResult>>
    /\ UNCHANGED <<selectVars, findVars, coverageVars, runVars, mainVars,
                   baselineVars, nameVars, evalVars, blockFindVars>>

NextFuncCov == FuncCovCompute \/ FuncCovPercent

SpecFuncCov == InitFuncCov /\ [][NextFuncCov]_vars

\* ---------------------------------------------------------------- C35
\* the blocks of the set that lie in function fn
BlocksOf(fn) ==
    {k \in DOMAIN fcBlocks : blockFunction(fcMap, k) = fn}

\* the functions of the map, by the names ComputeFunctionCoverage uses
MappedFunctions ==
    UNION {{f \o <<":">> \o fcMap[f][i].Name : i \in DOMAIN fcMap[f]} :
              f \in DOMAIN fcMap}

\* C35: ComputeFunctionCoverage and CoveragePercent never divide by zero: a
\* function whose blocks total zero statements is absent from the result
\* map, and every percentage that is present is covered/total*100 of its
\* function (of the whole set for CoveragePercent) and lies in [0,100].
C35_NoDivisionByZero ==
    /\ "compute" \in fcPc =>
          \A fn \in DOMAIN fcResult \cup MappedFunctions :
              LET total == SumStatements(fcBlocks, BlocksOf(fn))
                  covered == SumStatements(fcBlocks,
                                 {k \in BlocksOf(fn) : fcBlocks[k].Covered})
              IN  IF total = 0 THEN fn \notin DOMAIN fcResult
                  ELSE /\ fn \in DOMAIN fcResult
                       /\ fcResult[fn].den = total
                       /\ fcResult[fn].num = covered * 100
                       /\ 0 <= fcResult[fn].num
                       /\ fcResult[fn].num <= 100 * fcResult[fn].den
    /\ "percent" \in fcPc =>
          /\ fcPercent.den > 0
          /\ 0 <= fcPercent.num
          /\ fcPercent.num <= 100 * fcPercent.den
          /\ TotalStatements(fcBlocks) > 0 =>
                /\ fcPercent.den = TotalStatements(fcBlocks)
                /\ fcPercent.num = CoveredStatements(fcBlocks) * 100

\* both calls have returned for a set in which one function has blocks of
\* zero statements only, another has a percentage and the set as a whole is
\* partly covered
C35_Witness ==
    /\ fcPc = {"compute", "percent"}
    /\ \E fn \in MappedFunctions :
          /\ BlocksOf(fn) # {}
          /\ fn \notin DOMAIN fcResult
    /\ DOMAIN fcResult # {}
    /\ 0 < fcPercent.num
    /\ fcPercent.num < 100 * fcPercent.den

\* ================================================================ block-level Find
\* Steps 4 and 5 of the block-level Find (part_000:250-384): the coverage
\* files are parsed into block sets, all of them are merged into
\* totalBlockSet, and the greedy loop keeps the test with the most new
\* statements until no test adds any.  currentCoverage holds a block set
\* here, bestImprovements the new statements of the chosen test.
\* the greatest number of discovered tests
MaxBlockTests == 2

BlockTestNames == 1..MaxBlockTests

\* the profiles tests can have over a source whose block k has stmts[k]
\* statements: some of the blocks, each covered or not
SourceProfiles(stmts) ==
    UNION {{[k \in D |-> [Statements |-> stmts[k], Covered |-> k \in C]] :
               C \in SUBSET D} :
              D \in SUBSET BlockIDs}

RECURSIVE mergeAll(_, _, _)
\* part_000:272-275: totalBlockSet.Merge(bs) for the block sets in the order
\* the map is ranged over
mergeAll(total, sets, order) ==
    IF order = <<>> THEN total
    ELSE mergeAll(Merge(total, sets[Head(order)]), sets, Tail(order))

RECURSIVE bestInPool(_, _, _, _, _)
\* part_000:317-339: findBestTest; best is <<bestTest, bestNewStatements>>
bestInPool(pool, kept, sets, cur, best) ==
    IF pool = <<>> THEN best
    ELSE LET test == Head(pool)
         IN  IF test \in kept \/ test \notin DOMAIN sets
             THEN bestInPool(Tail(pool), kept, sets, cur, best)
             ELSE LET newStatements == CountNewStatements(cur, sets[test])
                  IN  IF newStatements > best[2]
                      THEN bestInPool(Tail(pool), kept, sets, cur,
                                      <<test, newStatements>>)
                      ELSE bestInPool(Tail(pool), kept, sets, cur, best)

\* the non-baseline pool is never tried
bestBlockTest_NoFallback(all, base, kept, sets, cur) ==
    bestInPool(filterTests(all, base, TRUE), kept, sets, cur, <<NoTest, 0>>)

\* part_000:343-352: baseline tests first, the others when no baseline test
\* adds a statement
bestBlockTest(all, base, kept, sets, cur) ==
    LET b == bestInPool(filterTests(all, base, TRUE), kept, sets, cur,
                        <<NoTest, 0>>)
    IN  IF b[2] = 0
        THEN bestInPool(filterTests(all, base, FALSE), kept, sets, cur,
                        <<NoTest, 0>>)
        ELSE b

InitBlockFind ==
    /\ \E n \in 0..MaxBlockTests, stmts \in [BlockIDs -> 0..MaxStatements] :
          /\ allTests = [i \in 1..n |-> i]
          /\ \E D \in SUBSET (1..n) :
                /\ testCoverageFiles = D
                /\ testBlockSets \in [D -> SourceProfiles(stmts)]
    /\ baselineTests \in SUBSET BlockTestNames
    /\ totalBlockSet = EmptyBlockSet
    /\ bfPc = "parse"
    /\ allCoverage = <<>>
    /\ targetFunctions = {}
    /\ threshold = 0
    /\ currentCoverage = <<>>
    /\ remainingGaps = {}
    /\ keptTests = {}
    /\ keptOrder = <<>>
    /\ bestTest = NoTest
    /\ bestImprovements = 0
    /\ redundant = <<>>
    /\ pc = "idle"
    /\ testBlocks = <<>>
    /\ finished = {}
    /\ findPc = "off"
    /\ findResult = NoResult
    /\ ctxDone = FALSE
    /\ testErr = <<>>
    /\ finishOrder = <<>>
    /\ buildIdx = 0
    /\ buildFailed = {}
    /\ CoverageIdle
    /\ RunIdle
    /\ MainIdle
    /\ BaselineIdle
    /\ NameIdle
    /\ EvalIdle
    /\ FuncCovIdle

\* part_000:250-315: step 4 and the start of step 5
BlockFindParse ==
    /\ bfPc = "parse"
    /\ IF DOMAIN testBlockSets = {}
       THEN /\ bfPc' = "failed"
            /\ UNCHANGED <<totalBlockSet, currentCoverage>>
       ELSE /\ \E order \in Orders(DOMAIN testBlockSets) :
                  totalBlockSet' = mergeAll(EmptyBlockSet, testBlockSets, order)
            /\ currentCoverage' = EmptyBlockSet
            /\ bfPc' = "loop"
    /\ UNCHANGED <<allCoverage, baselineTests, targetFunctions, threshold,
                   remainingGaps, keptTests, keptOrder, bestTest,
                   bestImprovements, redundant, pc>>
    /\ UNCHANGED testBlockSets
    /\ UNCHANGED <<findVars, coverageVars, runVars, mainVars, baselineVars,
                   nameVars, evalVars, funcCovVars>>

\* part_000:342-384: an iteration that finds a test with new statements and
\* keeps it
BlockFindCommit ==
    /\ bfPc = "loop"
    /\ LET best == bestBlockTest(allTests, baselineTests, keptTests,
                                 testBlockSets, currentCoverage)
       IN  /\ best[2] # 0
           /\ bestTest' = best[1]
           /\ bestImprovements' = best[2]
           /\ keptTests' = keptTests \cup {best[1]}
           /\ keptOrder' = Append(keptOrder, best[1])
           /\ currentCoverage' = Merge(currentCoverage, testBlockSets[best[1]])
    /\ UNCHANGED <<allCoverage, baselineTests, targetFunctions, threshold,
                   remainingGaps, redundant, pc>>
    /\ UNCHANGED <<testBlockSets, totalBlockSet, bfPc>>
    /\ UNCHANGED <<findVars, coverageVars, runVars, mainVars, baselineVars,
                   nameVars, evalVars, funcCovVars>>

\* part_000:354-357 and 386-410: no test adds a statement; the loop ends and
\* the tests that ran and were not kept are listed as redundant
BlockFindBreak ==
    /\ bfPc = "loop"
    /\ bestBlockTest(allTests, baselineTests, keptTests, testBlockSets,
                     currentCoverage)[2] = 0
    /\ redundant' = discoveredNotKept(
                        SelectSeq(allTests, LAMBDA t : t \in testCoverageFiles),
                        keptTests)
    /\ bfPc' = "done"
    /\ UNCHANGED <<allCoverage, baselineTests, targetFunctions, threshold,
                   currentCoverage, remainingGaps, keptTests, keptOrder,
                   bestTest, bestImprovements, pc>>
    /\ UNCHANGED <<testBlockSets, totalBlockSet>>
    /\ UNCHANGED <<findVars, coverageVars, runVars, mainVars, baselineVars,
                   nameVars, evalVars, funcCovVars>>

NextBlockFind ==
    \/ BlockFindParse
    \/ BlockFindCommit
    \/ BlockFindBreak

SpecBlockFind == InitBlockFind /\ [][NextBlockFind]_vars

\* ---------------------------------------------------------------- C39
\* C39: when the block-level greedy loop of Find stops, the running block
\* set of the kept tests covers every statement covered by the union of all
\* parsed per-test block sets: CoveredStatements of the kept coverage equals
\* CoveredStatements of the total coverage.
C39_KeptCoversTotal ==
    bfPc = "done" =>
        /\ CoveredStatements(currentCoverage) = CoveredStatements(totalBlockSet)
        /\ \A k \in DOMAIN totalBlockSet :
              (totalBlockSet[k].Covered /\ totalBlockSet[k].Statements > 0)
                  => (k \in DOMAIN currentCoverage /\ currentCoverage[k].Covered)

\* the loop has stopped after keeping a non-baseline test and leaving
\* another test, which covers statements too, out
C39_Witness ==
    /\ bfPc = "done"
    /\ Len(keptOrder) = 1
    /\ keptOrder[1] \notin baselineTests
    /\ CoveredStatements(totalBlockSet) > 1
    /\ \E t \in DOMAIN testBlockSets :
          /\ t \notin keptTests
          /\ CoveredStatements(testBlockSets[t]) > 0

\* ================================================================ SelectMinimalSet: termination and invariants
\* the greatest number of tests in the runs checked for termination
MaxTermTests == 2

InitTerm ==
    /\ Init
    /\ Len(allCoverage) <= MaxTermTests
    /\ baselineTests \subseteq 1..MaxTermTests

\* SelectMinimalSet is a sequential function: a step that can be taken is
\* taken
SpecTerm == InitTerm /\ [][Next]_vars /\ WF_vars(Next)

BelowThreshold ==
    {fn \in targetFunctions : currentCoverage[fn] < threshold}

C38_RunningIsMax ==
    pc \in {"loop", "done"} /\ currentCoverage # <<>> =>
        \A fn \in targetFunctions :
            currentCoverage[fn] = MaxCov(keptTests, fn)

\* three commits, the running value of a function being set by the second
\* and not by the first or the third
C38_Witness ==
    /\ pc = "loop"
    /\ Len(keptOrder) = 3
    /\ \E fn \in targetFunctions :
          /\ Cov(keptOrder[1])[fn] < Cov(keptOrder[2])[fn]
          /\ Cov(keptOrder[3])[fn] < Cov(keptOrder[2])[fn]
          /\ currentCoverage[fn] = Cov(keptOrder[2])[fn]

====
